---- MODULE Spec2Model ----
(***************************************************************************)
(* Event-loop driver and update-mode scheduler of bevy_winit               *)
(* (crates/bevy_winit/src/state.rs, winit_event_filter.rs,                 *)
(* winit_config.rs, and the earlier driver of lib.rs).  One action per     *)
(* winit event handled by handle_winit_event; the ECS world is a black box *)
(* whose effects on the resources the driver reads back are drawn          *)
(* nondeterministically.  Spec is the state.rs driver, SpecCount the same  *)
(* with its updates counted, SpecCause the same with the start cause of    *)
(* the loop iteration kept; SpecFilter the                                 *)
(* event filter alone; SpecWindow and SpecIdle the driver with its Window  *)
(* component and event queues; SpecSettings the settings alone; SpecLib    *)
(* the lib.rs driver; SpecState the state-transition system of bevy_state  *)
(* (crates/bevy_state/src/state/freely_mutable_state.rs).                  *)
(***************************************************************************)
EXTENDS Integers, FiniteSets, Sequences, TLC

\* Saturation point of the history counters (idle decisions, update calls).
MaxCount == 6

\* Duration::MAX, in the model's time unit (milliseconds).
DurationMax == 1000000

\* ---------------------------------------------------------------------------
\* UpdateMode / WinitSettings (winit_config.rs, as matched by state.rs)
\* ---------------------------------------------------------------------------

\* UpdateMode::Reactive { wait, react_to_window_events, react_to_device_events,
\* react_to_user_events }
Reactive(wait, w, d, u) ==
    [kind |-> "Reactive", wait |-> wait,
     react_to_window_events |-> w,
     react_to_device_events |-> d,
     react_to_user_events |-> u]

\* UpdateMode::Continuous (continuous(): every category reacts).
Continuous ==
    [kind |-> "Continuous", wait |-> 0,
     react_to_window_events |-> TRUE,
     react_to_device_events |-> TRUE,
     react_to_user_events |-> TRUE]

reactive_at_target_interval(interval) == Reactive(interval, TRUE, TRUE, TRUE)

reactive_low_power_at_target_interval(interval) ==
    Reactive(interval, TRUE, FALSE, TRUE)

game ==
    [focused_mode |-> Continuous,
     unfocused_mode |-> reactive_at_target_interval(16)]

desktop_app ==
    [focused_mode |-> reactive_at_target_interval(1000),
     unfocused_mode |-> reactive_low_power_at_target_interval(60000)]

\* A user-built configuration: the mode of tests::test_update_mode when
\* focused, Reactivity::manual() (user events only) when unfocused.
manual_app ==
    [focused_mode |-> Reactive(DurationMax, FALSE, FALSE, FALSE),
     unfocused_mode |-> Reactive(1000, FALSE, FALSE, TRUE)]

\* The settings the application may install or switch to: between them every
\* kind of mode (continuous, reactive to everything, reactive with disabled
\* categories, reactive with a deadline that cannot be represented).
SettingsSet == {game, manual_app}

\* Wait intervals the event filter is exercised with.
Waits == {16, DurationMax}

AllModes ==
    {Continuous} \cup
    {Reactive(t, w, d, u) : t \in Waits, w \in BOOLEAN, d \in BOOLEAN, u \in BOOLEAN}

\* Faulty selection: the two modes are swapped.
update_mode_of_swapped(s, focus) ==
    IF focus THEN s.unfocused_mode ELSE s.focused_mode

\* WinitSettings::update_mode, lines 43-48.
update_mode_of(s, focus) ==
    IF focus THEN s.focused_mode ELSE s.unfocused_mode

\* ---------------------------------------------------------------------------
\* Events and the event filter (winit_event_filter.rs)
\* ---------------------------------------------------------------------------

EventKinds ==
    {"AboutToWait", "NewEvents", "WindowEvent", "DeviceEvent", "UserEvent",
     "Suspended", "Resumed", "LoopExiting"}

\* Installed predicates: none, the closure of tests::test_filter (rejects user
\* events, accepts the rest), and one that rejects everything.
FilterSet == {"None", "RejectUser", "RejectAll"}

\* The filters the driver runs are explored with.
DriverFilters == {"None", "RejectAll"}

filter_closure(f, kind, mode) ==
    CASE f = "RejectUser" -> kind # "UserEvent"
      [] f = "RejectAll" -> FALSE
      [] OTHER -> TRUE

\* Faulty gate: device events are matched against the window flag.
can_react_device_as_window(kind, mode) ==
    IF mode.kind = "Continuous" THEN TRUE
    ELSE CASE kind = "DeviceEvent" -> mode.react_to_window_events
           [] kind = "UserEvent" -> mode.react_to_user_events
           [] kind = "WindowEvent" -> mode.react_to_window_events
           [] OTHER -> FALSE

\* Faulty gate: a reactive mode lets events outside the three categories pass.
can_react_uncategorised(kind, mode) ==
    IF mode.kind = "Continuous" THEN TRUE
    ELSE CASE kind = "DeviceEvent" -> mode.react_to_device_events
           [] kind = "UserEvent" -> mode.react_to_user_events
           [] kind = "WindowEvent" -> mode.react_to_window_events
           [] OTHER -> TRUE

\* Faulty gate: continuous mode opens the gate for the three categories only.
can_react_categories_only(kind, mode) ==
    IF mode.kind = "Continuous"
    THEN kind \in {"WindowEvent", "DeviceEvent", "UserEvent"}
    ELSE CASE kind = "DeviceEvent" -> mode.react_to_device_events
           [] kind = "UserEvent" -> mode.react_to_user_events
           [] kind = "WindowEvent" -> mode.react_to_window_events
           [] OTHER -> FALSE

can_react(kind, mode) ==
    IF mode.kind = "Continuous" THEN TRUE
    ELSE CASE kind = "DeviceEvent" -> mode.react_to_device_events
           [] kind = "UserEvent" -> mode.react_to_user_events
           [] kind = "WindowEvent" -> mode.react_to_window_events
           [] OTHER -> FALSE

\* Faulty filter: with no predicate installed every event is absorbed.
handle_absorbing_default(f, kind, mode) ==
    IF ~can_react(kind, mode) THEN FALSE
    ELSE IF f = "None" THEN FALSE
    ELSE filter_closure(f, kind, mode)

handle(f, kind, mode) ==
    IF ~can_react(kind, mode) THEN FALSE
    ELSE IF f = "None" THEN TRUE
    ELSE filter_closure(f, kind, mode)

\* ---------------------------------------------------------------------------
\* Driver state
\* ---------------------------------------------------------------------------

VARIABLES
    activity_state,          \* runner_state.activity_state
    update_mode,             \* runner_state.update_mode (cached)
    event_filter,            \* runner_state.event_filter
    startup_forced_updates,  \* runner_state.startup_forced_updates
    redraw_requested,        \* runner_state.redraw_requested
    wait_elapsed,            \* runner_state.wait_elapsed
    event_received,          \* runner_state.event_received
    plugins_state,           \* app.plugins_state()
    settings,                \* the WinitSettings resource
    focused,                 \* some window has focus
    control_flow,            \* event_loop.control_flow()
    exiting,                 \* event_loop.exit() was called
    app_exit_pending,        \* Events<AppExit> holds an event the reader has
                             \* not read
    idle_decisions,          \* history: idle steps that reached the decision
    update_calls,            \* history: calls of run_app_update
    frame_updates,           \* history: calls of app.update()
    recording,               \* history: which of update_calls and
                             \* frame_updates ("counters", SpecCount) and
                             \* start_cause ("start_cause", SpecCause) is
                             \* kept; what is not stays at its initial value
    woken,                   \* history: the filter passed an event since the
                             \* last call of app.update()
    last,                    \* history: what the most recent step did
    start_cause,             \* history: the StartCause of the loop iteration
                             \* in progress ("none" once it reached its
                             \* idle step)
    resumed_before,          \* history: a resume signal was handled
    quiet_idles,             \* history: consecutive idle steps, with no other
                             \* event between them, handled in the quiet
                             \* game() state (see QuietGame), up to QuietIdles
    window,                  \* the Window component: its WindowResolution
    redraw_events,           \* Events<RequestRedraw> the reader has not read
    scale_events,            \* Events<WindowBackendScaleFactorChanged> the
                             \* reader has not read, oldest first
    rescaling_setter,        \* WindowResolution::set_scale_factor rescales
                             \* the physical size (see set_scale_factor)
    window_event_received,   \* runner_state.window_event_received (lib.rs)
    device_event_received,   \* runner_state.device_event_received (lib.rs)
    current_state,           \* the State<S> resource ("absent": not inserted)
    next_state,              \* the NextState<S> resource
    transition_events,       \* Events<StateTransitionEvent<S>>, oldest first
    applied,                 \* history: what the latest call of
                             \* apply_state_transition found
    proxy_wake,              \* history (lib.rs): how far a redraw request
                             \* sent through the EventLoopProxy has come:
                             \* "sent" (the user event was handled),
                             \* "requested" (an idle step asked the windows
                             \* to redraw), "updated" (the RedrawRequested
                             \* event ran a frame update), "none"
    returned,                \* history: the latest call of
                             \* WinitSettings::update_mode made on its own:
                             \* its argument and what it returned
    drain,                   \* history: what the step, if it was an idle
                             \* step, read from the two readers and did
                             \* with it
    log                      \* history: what the step, if it handled a
                             \* window event, did to the Window component
                             \* and sent, in program order

vars ==
    <<activity_state, update_mode, event_filter, startup_forced_updates,
      redraw_requested, wait_elapsed, event_received, plugins_state, settings,
      focused, control_flow, exiting, idle_decisions, update_calls,
      frame_updates, woken, last, start_cause, app_exit_pending,
      resumed_before, quiet_idles, window, redraw_events, scale_events,
      rescaling_setter, returned, drain, log, window_event_received,
      device_event_received, proxy_wake, current_state, next_state,
      transition_events, applied, recording>>

\* The resources of bevy_state, which the drivers do not touch.
state_vars == <<current_state, next_state, transition_events, applied>>

\* The two flags of the lib.rs driver, which the state.rs driver replaced by
\* event_received.
lib_vars == <<window_event_received, device_event_received, proxy_wake>>

\* The Window component and the event queues the driver reads at its idle
\* step, the record of a call of update_mode made outside the driver, and
\* the flags of the lib.rs driver; with them the resources of bevy_state and
\* the switch of the recorded history, which no handler changes.
world_vars ==
    <<window, redraw_events, scale_events, rescaling_setter, returned, drain,
      log, lib_vars, state_vars, recording>>

\* WindowResolution: the physical size in pixels, the scale factor the
\* backend reported and the factor the application forces (0: None).
WindowResolution(w, h, factor, override) ==
    [physical_width |-> w, physical_height |-> h,
     scale_factor |-> factor, scale_factor_override |-> override]

\* update_mode was not called yet.
NoCall == [calls |-> 0, focused |-> FALSE, mode |-> [kind |-> "none"]]

\* No window event was handled yet.
NoLog == [event |-> "none", effects |-> <<>>]

\* An idle step that read nothing.
NoDrain ==
    [redraws_read |-> 0, scale_read |-> <<>>, applied |-> 0,
     resized |-> FALSE]

\* ---------------------------------------------------------------------------
\* bevy_state: apply_state_transition (freely_mutable_state.rs)
\* ---------------------------------------------------------------------------

\* The values of a state type S.
States == {"Menu", "InGame", "Paused"}

\* NextState<S>: the resource is not inserted, NextState::Unchanged, or
\* NextState::Pending(value).
NoNextState == [kind |-> "absent", value |-> "none"]

Unchanged == [kind |-> "Unchanged", value |-> "none"]

Pending(value) == [kind |-> "Pending", value |-> value]

\* StateTransitionEvent { exited, entered }
StateTransitionEvent(exited, entered) == [exited |-> exited, entered |-> entered]

\* apply_state_transition was not called since next_state was last set.
NoApply == [called |-> FALSE, before |-> "absent", pending |-> NoNextState]

\* take_next_state: the pending value, if any ("None" otherwise), is taken
\* out of the resource, which is left NextState::Unchanged.
take_next_state(next) ==
    [taken |-> IF next.kind = "Pending" THEN next.value ELSE "None",
     next_state |-> IF next.kind = "absent" THEN next ELSE Unchanged]

\* internal_apply_state_transition with Some(current) and Some(entered): the
\* resource takes the entered value and one event carries both.
internal_apply_state_transition(current, entered) ==
    [current_state |-> entered,
     sent |-> <<StateTransitionEvent(current, entered)>>]

\* Faulty system: the pending value is applied even when it equals the
\* current state.
apply_state_transition_unguarded(current, next) ==
    LET t == take_next_state(next)
    IN  IF t.taken = "None" \/ current = "absent"
        THEN [current_state |-> current, next_state |-> t.next_state,
              sent |-> <<>>]
        ELSE [current_state |-> t.taken, next_state |-> t.next_state,
              sent |-> <<StateTransitionEvent(current, t.taken)>>]

\* apply_state_transition, freely_mutable_state.rs 44-59: what the system
\* leaves in State<S> and NextState<S>, and the events it sends.
apply_state_transition(current, next) ==
    LET t == take_next_state(next)
        unchanged == [current_state |-> current, next_state |-> t.next_state,
                      sent |-> <<>>]
    IN  IF t.taken = "None" THEN unchanged
        ELSE IF current = "absent" THEN unchanged
        ELSE IF t.taken # current
        THEN LET r == internal_apply_state_transition(current, t.taken)
             IN  [current_state |-> r.current_state,
                  next_state |-> t.next_state, sent |-> r.sent]
        ELSE unchanged

\* An application without a state type.
NoAppState ==
    /\ current_state = "absent"
    /\ next_state = NoNextState
    /\ transition_events = <<>>
    /\ applied = NoApply

UpdateStates ==
    {"NotYetStarted", "Active", "Suspended", "WillSuspend", "WillResume"}

is_active(s) == s \in {"Active", "WillSuspend", "WillResume"}

\* Faulty policy: the activity state is not consulted.
should_update_ignoring_activity(wait, received, activity) == wait \/ received

\* Faulty policy: being active is enough to update.
should_update_or_active(wait, received, activity) ==
    (wait \/ received) \/ is_active(activity)

\* Faulty policy: an elapsed wait alone does not update.
should_update_on_events_only(wait, received, activity) ==
    received /\ is_active(activity)

should_update(wait, received, activity) ==
    (wait \/ received) /\ is_active(activity)

\* reset_on_update: the statement `self.event_received;` reads the flag and
\* assigns nothing.
reset_on_update(received) == received

\* The history counters follow the first MaxCount - 1 idle decisions exactly;
\* from the MaxCount-th on they all read MaxCount.
Count(n, inc) ==
    IF idle_decisions + 1 < MaxCount
    THEN (IF inc THEN n + 1 ELSE n)
    ELSE MaxCount

\* The counters of the updates are kept under SpecCount only.
CountUpdates(n, inc) ==
    IF recording = "counters" THEN Count(n, inc) ELSE n

NoStep ==
    [event |-> "none", completed |-> FALSE, policy |-> FALSE,
     should_update |-> FALSE, app_updated |-> FALSE, filter_result |-> FALSE,
     redraw_issued |-> FALSE, redraw_latched |-> FALSE, armed |-> FALSE,
     sent |-> "none"]

Step(kind, completed, result, sent) ==
    [NoStep EXCEPT !.event = kind, !.completed = completed,
                   !.filter_result = result, !.sent = sent]

\* WinitAppRunnerState::default and winit_runner: the filter resource, when
\* the application inserted one, replaces the default filter.
InitRunner ==
    /\ activity_state = "NotYetStarted"
    /\ update_mode = Continuous
    /\ startup_forced_updates = 5
    /\ redraw_requested = FALSE
    /\ wait_elapsed = FALSE
    /\ focused \in BOOLEAN
    /\ control_flow = [kind |-> "Poll", at |-> 0]
    /\ exiting = FALSE
    /\ idle_decisions = 0
    /\ update_calls = 0
    /\ frame_updates = 0
    /\ woken = FALSE
    /\ last = NoStep
    /\ start_cause = "none"
    /\ resumed_before = FALSE
    /\ quiet_idles = 0

\* One window of 800 x 600 physical pixels at scale factor 1, nothing queued.
InitDriverWorld ==
    /\ window = WindowResolution(800, 600, 1, 0)
    /\ redraw_events = 0
    /\ scale_events = <<>>
    /\ rescaling_setter = FALSE
    /\ window_event_received = FALSE
    /\ device_event_received = FALSE
    /\ proxy_wake = "none"
    /\ returned = NoCall
    /\ drain = NoDrain
    /\ log = NoLog

InitWorld == InitDriverWorld /\ NoAppState /\ recording = "none"

\* What the application brings to winit_runner: an AppExit event may already
\* be waiting, the plugins may still be building.
InitApp ==
    /\ event_received = FALSE
    /\ app_exit_pending \in BOOLEAN
    /\ event_filter \in DriverFilters
    /\ plugins_state \in {"Adding", "Cleaned"}
    /\ settings \in SettingsSet

Init ==
    /\ InitRunner
    /\ InitWorld
    /\ InitApp

\* As Init, the counters of the updates kept.
InitCount ==
    /\ InitRunner
    /\ InitDriverWorld /\ NoAppState /\ recording = "counters"
    /\ InitApp

\* As Init, the start cause of the loop iteration in progress kept.
InitCause ==
    /\ InitRunner
    /\ InitDriverWorld /\ NoAppState /\ recording = "start_cause"
    /\ InitApp

\* ---------------------------------------------------------------------------
\* handle_winit_event (state.rs)
\* ---------------------------------------------------------------------------

\* Prelude common to every event: plugin finishing (lines 212-221).
plugins_after ==
    IF plugins_state = "Ready" THEN "Cleaned" ELSE plugins_state

redraw_after_plugins == redraw_requested \/ plugins_state # "Cleaned"

\* Lines 228-230: the effective mode for the current focus.
effective_mode == update_mode_of(settings, focused)

\* Faulty accumulation: the flag is assigned, not or-ed.
handle_event_assigning(received, kind) ==
    handle(event_filter, kind, effective_mode)

\* Line 232 / handle_event: the wake flag after the filter saw the event.
handle_event(received, kind) ==
    received \/ handle(event_filter, kind, effective_mode)

\* Instant::checked_add: None when the sum is not representable.
InstantMax == DurationMax

checked_add(instant, duration) ==
    IF instant + duration > InstantMax THEN "None" ELSE "Some"

\* Instant::now() at line 388.
begin_frame_time == 1

\* ControlFlow::Poll, ControlFlow::Wait and ControlFlow::WaitUntil(at).
Flow(kind) == [kind |-> kind, at |-> 0]

WaitUntil(at) == [kind |-> "WaitUntil", at |-> at]

\* Faulty step: a reactive mode arms the deadline whether or not the wait has
\* elapsed.
deadline_armed_always(mode, wait) ==
    /\ mode.kind = "Reactive"
    /\ checked_add(begin_frame_time, mode.wait) = "Some"

\* Lines 443-450: a reactive mode calls set_control_flow(WaitUntil(next)) only
\* when the deadline is representable and the wait has elapsed.
deadline_armed(mode, wait) ==
    /\ mode.kind = "Reactive"
    /\ checked_add(begin_frame_time, mode.wait) = "Some"
    /\ wait

\* Lines 409-451: the control flow the idle step leaves behind.  In
\* Continuous mode it is the one the platform branch selects (cf); in a
\* reactive mode it changes only when the deadline is armed.
control_flow_after(mode, wait, cf, flow) ==
    IF mode.kind = "Continuous" THEN Flow(cf)
    ELSE IF deadline_armed(mode, wait)
         THEN WaitUntil(begin_frame_time + mode.wait)
         ELSE flow

\* Faulty step: a mode change leaves wait_elapsed alone.
wait_after_mode_unchanged(wait, cached, mode) == wait

\* Lines 400-404: a mode change counts as an elapsed wait.
wait_after_mode(wait, cached, mode) == wait \/ mode # cached

\* Faulty flush: redraws are requested only while the app is active.
redraw_flush_only_active(redraw, activity) == redraw /\ activity = "Active"

\* Faulty flush: redraws are requested from a suspended app too.
redraw_flush_while_suspended(redraw, activity) == redraw

\* Lines 453-461: the redraw requests are issued, and the flag cleared, when
\* the flag is set and the app is not Suspended.
redraw_flush(redraw, activity) == redraw /\ activity # "Suspended"

\* Faulty match: only an expired deadline counts as an elapsed wait.
wait_elapsed_after_deadline_only(cause) == cause = "ResumeTimeReached"

\* Lines 464-470: wait_elapsed after NewEvents(cause).
wait_elapsed_after(cause) == cause # "WaitCancelled_Some"

\* Faulty check: a pending AppExit is read but the loop is not asked to exit.
exit_requested_never(pending, completed) == FALSE

\* Lines 672-677: a handler that reaches its end asks the loop to exit when
\* an AppExit event is unread; the `return`s of 296, 301, 480 and 485 leave
\* the handler before.
exit_requested(pending, completed) == pending /\ completed

\* Line 673: the reader consumes what it reads.
unread_after(pending, completed) == pending /\ ~completed

\* The idle iterations without events that are counted before the one that
\* is looked at.
QuietIdles == 3

\* WinitSettings::game() with a focused window, the startup updates used up
\* and wait_elapsed false.
QuietGame ==
    /\ settings = game /\ focused
    /\ startup_forced_updates = 0
    /\ ~wait_elapsed

\* Faulty handler: window events call run_app_update too, as the
\* RedrawRequested arm of the lib.rs driver does.
calls_run_app_update_on_window_events(kind) ==
    kind \in {"AboutToWait", "WindowEvent"}

\* The arms of the match that call run_app_update: the call of line 392, in
\* the AboutToWait arm, is the only one.
calls_run_app_update(kind) == kind = "AboutToWait"

\* run_app_update, lines 680-686: app.update() runs only once the plugins
\* are cleaned up.
app_update_runs(decision, plugins) == decision /\ plugins = "Cleaned"

\* The part of the handler that is the same for every event that does not
\* reach the idle decision.
Prelude(kind, completed, sent) ==
    /\ exiting' = (exiting \/ exit_requested(app_exit_pending, completed))
    /\ app_exit_pending' = unread_after(app_exit_pending, completed)
    /\ resumed_before' = (resumed_before \/ kind = "Resumed")
    /\ quiet_idles' = 0
    /\ plugins_state' = plugins_after
    /\ event_received' = handle_event(event_received, kind)
    /\ woken' = (woken \/ handle(event_filter, kind, effective_mode))
    /\ last' = [Step(kind, completed,
                     handle(event_filter, kind, effective_mode), sent)
                    EXCEPT !.app_updated =
                        /\ completed /\ kind # "AboutToWait"
                        /\ calls_run_app_update(kind)
                        /\ app_update_runs(TRUE, plugins_after)]

\* An async plugin finishes building: plugins_state() turns Ready.
PluginsReady ==
    /\ ~exiting
    /\ plugins_state = "Adding"
    /\ plugins_state' = "Ready"
    /\ last' = [NoStep EXCEPT !.event = "PluginsReady"]
    /\ UNCHANGED <<activity_state, update_mode, event_filter,
                   startup_forced_updates, redraw_requested, wait_elapsed,
                   event_received, settings, focused, control_flow, exiting,
                   app_exit_pending, idle_decisions, update_calls,
                   frame_updates, woken, start_cause, resumed_before,
                   quiet_idles>>
    /\ UNCHANGED world_vars

\* WinitEvent::AboutToWait that returns at line 296 or 301: the latest unread
\* backend scale-factor event names a window that cannot be found.
\* redraw_read: the reader saw a new RequestRedraw event (276-280).
AboutToWaitReturn(redraw_read) ==
    /\ ~exiting
    /\ Prelude("AboutToWait", FALSE, "none")
    /\ redraw_requested' = (redraw_after_plugins \/ redraw_read)
    /\ start_cause' = "none"
    /\ UNCHANGED <<activity_state, update_mode, event_filter,
                   startup_forced_updates, wait_elapsed, settings, focused,
                   control_flow, idle_decisions, update_calls,
                   frame_updates>>

\* Faulty counter test: the last startup update is not forced.
startup_forced_off_by_one(startup) == startup > 1

\* Line 320: the startup counter still forces updates.
startup_forced(startup) == startup > 0

\* Faulty counter: it is never decremented.
startup_after_stuck(startup) == startup

\* Line 321: the counter after an idle decision.
startup_after(startup) ==
    IF startup_forced(startup) THEN startup - 1 ELSE startup

\* Faulty edge: WillSuspend is not left at the idle decision.
activity_after_idle_stays_suspending(activity) ==
    CASE activity = "WillResume" -> "Active"
      [] OTHER -> activity

\* Faulty edge: an idle step wakes a suspended app.
activity_after_idle_leaves_suspended(activity) ==
    CASE activity = "WillSuspend" -> "Suspended"
      [] activity = "WillResume" -> "Active"
      [] activity = "Suspended" -> "Active"
      [] OTHER -> activity

\* Faulty edge: a suspension takes the app back to NotYetStarted.
activity_after_idle_restarts(activity) ==
    CASE activity = "WillSuspend" -> "NotYetStarted"
      [] activity = "WillResume" -> "Active"
      [] OTHER -> activity

\* Lines 326-327 and 341-342: the lifecycle edges taken at an idle decision.
activity_after_idle(activity) ==
    CASE activity = "WillSuspend" -> "Suspended"
      [] activity = "WillResume" -> "Active"
      [] OTHER -> activity

\* Faulty decision: the suspend edge forces no update.
idle_decision_without_suspend(policy, startup, activity) ==
    \/ policy
    \/ startup > 0
    \/ activity = "WillResume"

\* Faulty decision: the resume edge forces no update.
idle_decision_without_resume(policy, startup, activity) ==
    \/ policy
    \/ startup > 0
    \/ activity = "WillSuspend"

\* Faulty decision: the lifecycle edges force no update.
idle_decision_without_edges(policy, startup, activity) ==
    policy \/ startup_forced(startup)

\* Lines 318-345: should_update() overridden by the startup counter and by
\* the two lifecycle edges.
idle_decision(policy, startup, activity) ==
    \/ policy
    \/ startup_forced(startup)
    \/ activity = "WillSuspend"
    \/ activity = "WillResume"

\* Faulty idle step: the mode computed when the handler started is used
\* although the frame update may have changed the settings or the focus.
update_mode_not_reextracted(decision, before, after) == before

\* Lines 228-230 and 390-398: the mode the idle step goes on with is the one
\* computed when the handler started (before) unless run_app_update was
\* called, after which it is extracted again (after).
update_mode_after_update(decision, before, after) ==
    IF decision THEN after ELSE before

\* WinitEvent::AboutToWait, lines 275-462 and 672-677, reaching the update
\* decision.  redraw_read: the reader saw a new RequestRedraw event; cf: the
\* control flow Continuous mode selects (Poll only where no window is
\* visible; a reactive mode does not read it).
AboutToWait(redraw_read, cf) ==
    LET received0 == handle_event(event_received, "AboutToWait")
        policy == should_update(wait_elapsed, received0, activity_state)
        decision == idle_decision(policy, startup_forced_updates, activity_state)
        activity1 == activity_after_idle(activity_state)
        redraw1 == redraw_after_plugins \/ redraw_read
                       \/ activity_state = "WillResume"
        runs == /\ calls_run_app_update("AboutToWait")
                /\ app_update_runs(decision, plugins_after)
    IN  /\ ~exiting
        /\ plugins_state' = plugins_after
        /\ startup_forced_updates' = startup_after(startup_forced_updates)
        /\ activity_state' = activity1
        /\ event_received' =
               IF decision THEN reset_on_update(received0) ELSE received0
        /\ idle_decisions' = Count(idle_decisions, TRUE)
        /\ update_calls' = CountUpdates(update_calls, decision)
        /\ frame_updates' = CountUpdates(frame_updates, runs)
        /\ woken' =
               (~runs /\ (woken \/ handle(event_filter, "AboutToWait", effective_mode)))
        /\ start_cause' = "none"
        /\ quiet_idles' = IF QuietGame
                          THEN (IF quiet_idles < QuietIdles
                                THEN quiet_idles + 1 ELSE QuietIdles)
                          ELSE 0
        /\ UNCHANGED <<event_filter, resumed_before>>
        /\ \E settings1 \in IF runs THEN SettingsSet ELSE {settings},
              focused1 \in IF runs THEN BOOLEAN ELSE {focused},
              exit \in IF runs THEN BOOLEAN ELSE {FALSE} :
            LET mode == update_mode_after_update(
                            decision, effective_mode,
                            update_mode_of(settings1, focused1))
                changed == mode # update_mode
                wait1 == wait_after_mode(wait_elapsed, update_mode, mode)
                flow1 == control_flow_after(mode, wait1, cf, control_flow)
                redraw2 == redraw1 \/ changed
                               \/ (mode.kind = "Continuous" /\ flow1.kind = "Wait")
                flush == redraw_flush(redraw2, activity1)
            IN  /\ mode.kind # "Continuous" => cf = "Wait"
                /\ settings' = settings1
                /\ focused' = focused1
                /\ update_mode' = mode
                /\ wait_elapsed' = wait1
                /\ control_flow' = flow1
                /\ redraw_requested' = (redraw2 /\ ~flush)
                /\ exiting' = exit_requested(app_exit_pending \/ exit, TRUE)
                /\ app_exit_pending' = unread_after(app_exit_pending \/ exit, TRUE)
                /\ last' = [event |-> "AboutToWait", completed |-> TRUE,
                            policy |-> policy, should_update |-> decision,
                            app_updated |-> runs,
                            filter_result |->
                                handle(event_filter, "AboutToWait", effective_mode),
                            redraw_issued |-> flush,
                            redraw_latched |-> redraw_requested,
                            armed |-> deadline_armed(mode, wait1),
                            sent |-> "none"]

StartCauses ==
    {"Init", "Poll", "ResumeTimeReached", "WaitCancelled_Some",
     "WaitCancelled_None"}

\* The causes the event loop can report for the control flow it was left
\* with: Init before the first iteration, Poll when polling, a cancelled wait
\* without a resume time under Wait, and under WaitUntil either the deadline
\* or a cancelled wait that carries the resume time.
causes_of(flow, first) ==
    (IF first THEN {"Init"} ELSE {}) \cup
    CASE flow.kind = "Poll" -> {"Poll"}
      [] flow.kind = "Wait" -> {"WaitCancelled_None"}
      [] OTHER -> {"ResumeTimeReached", "WaitCancelled_Some"}

\* The start cause is kept under SpecCause only.
start_cause_kept(cause) ==
    IF recording = "start_cause" THEN cause ELSE start_cause

\* WinitEvent::NewEvents(cause), lines 463-471.
NewEvents(cause) ==
    /\ ~exiting
    /\ cause \in causes_of(control_flow, last.event = "none")
    /\ Prelude("NewEvents", TRUE, "none")
    /\ start_cause' = start_cause_kept(cause)
    /\ redraw_requested' = redraw_after_plugins
    /\ wait_elapsed' = wait_elapsed_after(cause)
    /\ UNCHANGED <<activity_state, update_mode, event_filter,
                   startup_forced_updates, settings, focused, control_flow,
                   idle_decisions, update_calls, frame_updates>>

WindowEvents == {"Focused_true", "Focused_false", "CloseRequested"}

\* Faulty arm: the engine event is sent before the window is looked up.
window_event_sends_unchecked(event, lookup) ==
    IF event = "CloseRequested" THEN "WindowCloseRequested" ELSE "WindowFocused"

\* Lines 478-486, 500 and 589-591: the engine event a window event sends;
\* none when the window entity or its Window component is missing.
window_event_sends(event, lookup) ==
    IF lookup # "ok" THEN "none"
    ELSE CASE event = "CloseRequested" -> "WindowCloseRequested"
           [] event \in {"Focused_true", "Focused_false"} -> "WindowFocused"
           [] event = "Resized" -> "WindowResized"
           [] event = "ScaleFactorChanged" -> "WindowBackendScaleFactorChanged"
           [] event \in {"KeyboardInput_text", "KeyboardInput"} -> "KeyboardInput"
           [] event = "CursorMoved" -> "CursorMoved"
           [] event = "CursorLeft" -> "CursorLeft"
           [] event = "Moved" -> "WindowMoved"
           [] OTHER -> "none"

\* Lines 647-652 and 666-668: a device event (mouse motion) and a user event
\* are sent on to the world; the catch-all arm sends nothing.
passive_event_sends(kind) ==
    CASE kind = "DeviceEvent" -> "MouseMotion"
      [] kind = "UserEvent" -> "UserEvent"
      [] OTHER -> "none"

\* Faulty arm: every resume counts as the first.
lifetime_on_resume_always_started(activity) == "ApplicationLifetime::Started"

\* Lines 660-663: Started when the app was never started, Resumed otherwise.
lifetime_on_resume(activity) ==
    IF activity = "NotYetStarted" THEN "ApplicationLifetime::Started"
    ELSE "ApplicationLifetime::Resumed"

Lookups == {"ok", "unknown_window", "missing_component"}

\* WinitEvent::WindowEvent, lines 472-646.  lookup # "ok": the window id or
\* its Window component is missing and the handler returns (480, 485).
WindowEvent(event, lookup) ==
    /\ ~exiting
    /\ Prelude("WindowEvent", lookup = "ok", window_event_sends(event, lookup))
    /\ redraw_requested' = redraw_after_plugins
    /\ focused' = CASE lookup = "ok" /\ event = "Focused_true" -> TRUE
                    [] lookup = "ok" /\ event = "Focused_false" -> FALSE
                    [] OTHER -> focused
    /\ UNCHANGED <<activity_state, update_mode, event_filter,
                   startup_forced_updates, wait_elapsed, settings,
                   control_flow, idle_decisions, update_calls,
                   frame_updates, start_cause>>

\* Events whose arm changes no driver state: DeviceEvent (647-652),
\* UserEvent (666-668) and the catch-all arm (669).  Once the loop was asked
\* to exit it delivers LoopExiting only.
PassiveEvent(kind) ==
    /\ exiting => kind = "LoopExiting"
    /\ Prelude(kind, TRUE, passive_event_sends(kind))
    /\ redraw_requested' = redraw_after_plugins
    /\ UNCHANGED <<activity_state, update_mode, event_filter,
                   startup_forced_updates, wait_elapsed, settings, focused,
                   control_flow, idle_decisions, update_calls,
                   frame_updates, start_cause>>

DeviceEvent == PassiveEvent("DeviceEvent") /\ UNCHANGED world_vars

UserEvent == PassiveEvent("UserEvent") /\ UNCHANGED world_vars

OtherEvent == PassiveEvent("LoopExiting") /\ UNCHANGED world_vars

\* WinitEvent::Suspended, lines 653-658.  The loop suspends only an
\* application it has resumed.
Suspended ==
    /\ ~exiting
    /\ resumed_before
    /\ Prelude("Suspended", TRUE, "ApplicationLifetime::Suspended")
    /\ redraw_requested' = redraw_after_plugins
    /\ activity_state' = "WillSuspend"
    /\ UNCHANGED <<update_mode, event_filter, startup_forced_updates,
                   wait_elapsed, settings, focused, control_flow,
                   idle_decisions, update_calls, frame_updates, start_cause>>
    /\ UNCHANGED world_vars

\* WinitEvent::Resumed, lines 659-665.
Resumed ==
    /\ ~exiting
    /\ Prelude("Resumed", TRUE, lifetime_on_resume(activity_state))
    /\ redraw_requested' = redraw_after_plugins
    /\ activity_state' = "WillResume"
    /\ UNCHANGED <<update_mode, event_filter, startup_forced_updates,
                   wait_elapsed, settings, focused, control_flow,
                   idle_decisions, update_calls, frame_updates, start_cause>>
    /\ UNCHANGED world_vars

Idle ==
    /\ \E redraw_read \in BOOLEAN, cf \in {"Wait", "Poll"} : AboutToWait(redraw_read, cf)
    /\ UNCHANGED world_vars

IdleReturn ==
    /\ \E redraw_read \in BOOLEAN : AboutToWaitReturn(redraw_read)
    /\ UNCHANGED world_vars

Timer ==
    /\ \E cause \in StartCauses : NewEvents(cause)
    /\ UNCHANGED world_vars

Window ==
    /\ \E event \in WindowEvents, lookup \in Lookups : WindowEvent(event, lookup)
    /\ UNCHANGED world_vars

Next ==
    \/ PluginsReady
    \/ Idle
    \/ IdleReturn
    \/ Timer
    \/ Window
    \/ DeviceEvent
    \/ UserEvent
    \/ OtherEvent
    \/ Suspended
    \/ Resumed

Spec == Init /\ [][Next]_vars

\* The same driver, the updates counted.
SpecCount == InitCount /\ [][Next]_vars

\* The same driver, the start cause of the loop iteration kept.
SpecCause == InitCause /\ [][Next]_vars

\* ---------------------------------------------------------------------------
\* The event filter on its own: handle_event (state.rs 85-87) applied to any
\* event under any pair of modes and any installed predicate.
\* ---------------------------------------------------------------------------

HandleEvent(kind) ==
    /\ Prelude(kind, TRUE, "none")
    /\ UNCHANGED <<activity_state, update_mode, event_filter,
                   startup_forced_updates, redraw_requested, wait_elapsed,
                   settings, focused, control_flow, idle_decisions,
                   update_calls, frame_updates, start_cause>>
    /\ UNCHANGED world_vars

InitFilter ==
    /\ InitRunner
    /\ InitWorld
    /\ app_exit_pending = FALSE
    /\ event_filter \in FilterSet
    /\ event_received \in BOOLEAN
    /\ plugins_state = "Cleaned"
    /\ settings \in
           {[focused_mode |-> m, unfocused_mode |-> Continuous] : m \in AllModes}

NextFilter == \E kind \in EventKinds : HandleEvent(kind)

SpecFilter == InitFilter /\ [][NextFilter]_vars

\* ---------------------------------------------------------------------------
\* The Window component and the event queues: the window event arms
\* (state.rs 496-646), react_to_resize, react_to_scale_factor_changed and the
\* two readers of the idle step (276-316).
\* ---------------------------------------------------------------------------

\* Unread events a queue of the model holds at most.
MaxQueue == 2

\* The scale factors the backend reports and an application forces.
Factors == {1, 2}

\* The physical sizes the backend reports.
Sizes == {<<800, 600>>, <<801, 601>>}

\* A logical length: physical pixels over a scale factor, kept as a fraction.
Logical(num, den) == [num |-> num, den |-> den]

\* relative_eq!(a, b) on logical lengths.  Two lengths of the model that
\* differ, differ by a sixth of a pixel or more, far beyond f32::EPSILON.
relative_eq(a, b) == a.num * b.den = b.num * a.den

\* WindowResolution::scale_factor(): the forced factor if there is one.
scale_factor(res) ==
    IF res.scale_factor_override # 0 THEN res.scale_factor_override
    ELSE res.scale_factor

\* WindowResolution::width() and height(): physical size over scale_factor().
width(res) == Logical(res.physical_width, scale_factor(res))

height(res) == Logical(res.physical_height, scale_factor(res))

\* WindowResolution::set_physical_resolution.
set_physical_resolution(res, w, h) ==
    [res EXCEPT !.physical_width = w, !.physical_height = h]

\* WindowResolution::set_scale_factor.  keeps_logical_size: the setter
\* rescales the physical size so that width() and height() stay what they
\* were (cast to u32, which truncates); otherwise it stores the factor only.
\* The type has had both setters; react_to_scale_factor_changed is written
\* for either.
set_scale_factor(res, factor, keeps_logical_size) ==
    LET stored == [res EXCEPT !.scale_factor = factor]
        w == width(res)
        h == height(res)
    IN  IF keeps_logical_size
        THEN set_physical_resolution(stored,
                 (w.num * scale_factor(stored)) \div w.den,
                 (h.num * scale_factor(stored)) \div h.den)
        ELSE stored

\* LogicalSize::to_physical::<u32>(factor): multiply, round to nearest.
to_physical(logical, factor) ==
    (2 * logical.num * factor + logical.den) \div (2 * logical.den)

\* PhysicalSize::to_logical(factor).
to_logical(physical, factor) == Logical(physical, factor)

\* react_to_scale_factor_changed, lines 704-741: the window after the call
\* and the logical size it returns (<<>>: None).
react_to_scale_factor_changed(win, factor, keeps_logical_size) ==
    LET win1 == set_scale_factor(win, factor, keeps_logical_size)
        forced == win1.scale_factor_override
        new_factor == IF forced # 0 THEN forced ELSE scale_factor(win1)
        new_physical_size ==
            IF forced # 0
            THEN <<to_physical(width(win1), forced),
                   to_physical(height(win1), forced)>>
            ELSE <<win1.physical_width, win1.physical_height>>
        win2 == set_physical_resolution(win1, new_physical_size[1],
                                        new_physical_size[2])
        new_logical_size == <<to_logical(new_physical_size[1], new_factor),
                              to_logical(new_physical_size[2], new_factor)>>
    IN  [window |-> win2,
         logical_size |->
             IF \/ ~relative_eq(width(win2), new_logical_size[1])
                \/ ~relative_eq(height(win2), new_logical_size[2])
             THEN new_logical_size ELSE <<>>]

\* The window events of the model; "Other" stands for the events of the
\* catch-all arm (line 637).
AllWindowEvents ==
    {"Resized", "CloseRequested", "KeyboardInput_text", "KeyboardInput",
     "CursorMoved", "CursorLeft", "ScaleFactorChanged", "Focused_true",
     "Focused_false", "Moved", "Other"}

\* Faulty arms: the engine event is sent before the Window component is
\* changed.
window_event_effects_send_first(event, win, factor) ==
    CASE event = "Resized" -> <<"send WindowResized", "set resolution">>
      [] event = "CursorMoved" ->
             <<"send CursorMoved", "set physical_cursor_position">>
      [] event = "CursorLeft" ->
             <<"send CursorLeft", "set physical_cursor_position">>
      [] event \in {"Focused_true", "Focused_false"} ->
             <<"send WindowFocused", "set focused">>
      [] event = "Moved" -> <<"send WindowMoved", "set position">>
      [] event = "CloseRequested" -> <<"send WindowCloseRequested">>
      [] event = "KeyboardInput_text" ->
             <<"send ReceivedCharacter", "send KeyboardInput">>
      [] event = "KeyboardInput" -> <<"send KeyboardInput">>
      [] event = "ScaleFactorChanged" ->
             <<"send WindowBackendScaleFactorChanged">> \o
             (IF win.scale_factor_override = 0 /\ factor # scale_factor(win)
              THEN <<"send WindowScaleFactorChanged">> ELSE <<>>)
      [] OTHER -> <<>>

\* The entries of a handler's log that change the Window component.
Mutations ==
    {"set resolution", "set physical_cursor_position", "set focused",
     "set position"}

\* The engine events a handler's log sends.
Sends(effects) ==
    Cardinality({i \in DOMAIN effects : effects[i] \notin Mutations})

\* Every change of the Window component comes before every engine event.
MutationsFirst(effects) ==
    \A i, j \in DOMAIN effects :
        i < j /\ effects[j] \in Mutations => effects[i] \in Mutations

\* Lines 496-638: what the arm of a window event does to the Window
\* component ("set ...") and sends to the world ("send ..."), in program
\* order.  factor: the scale factor a ScaleFactorChanged event carries.
window_event_effects(event, win, factor) ==
    CASE event = "Resized" -> <<"set resolution", "send WindowResized">>
      [] event = "CloseRequested" -> <<"send WindowCloseRequested">>
      [] event = "KeyboardInput_text" ->
             <<"send ReceivedCharacter", "send KeyboardInput">>
      [] event = "KeyboardInput" -> <<"send KeyboardInput">>
      [] event = "CursorMoved" ->
             <<"set physical_cursor_position", "send CursorMoved">>
      [] event = "CursorLeft" ->
             <<"set physical_cursor_position", "send CursorLeft">>
      [] event = "ScaleFactorChanged" ->
             <<"send WindowBackendScaleFactorChanged">> \o
             (IF win.scale_factor_override = 0 /\ factor # scale_factor(win)
              THEN <<"send WindowScaleFactorChanged">> ELSE <<>>)
      [] event \in {"Focused_true", "Focused_false"} ->
             <<"set focused", "send WindowFocused">>
      [] event = "Moved" -> <<"set position", "send WindowMoved">>
      [] OTHER -> <<>>

\* react_to_resize, lines 688-702, on the resolution.
react_to_resize(win, size) == set_physical_resolution(win, size[1], size[2])

\* WinitEvent::WindowEvent with the Window component and the queue of
\* backend scale-factor events.  size, factor: what a Resized and a
\* ScaleFactorChanged event carry.
WindowEventOn(event, lookup, size, factor) ==
    /\ WindowEvent(event, lookup)
    /\ event = "ScaleFactorChanged" /\ lookup = "ok" =>
           Len(scale_events) < MaxQueue
    /\ window' = IF event = "Resized" /\ lookup = "ok"
                 THEN react_to_resize(window, size) ELSE window
    /\ scale_events' = IF event = "ScaleFactorChanged" /\ lookup = "ok"
                       THEN Append(scale_events, factor) ELSE scale_events
    /\ log' = [event |-> event,
               effects |-> IF lookup = "ok"
                           THEN window_event_effects(event, window, factor)
                           ELSE <<>>]
    /\ drain' = NoDrain
    /\ UNCHANGED <<redraw_events, rescaling_setter, returned, lib_vars,
                   state_vars, recording>>

\* Faulty choice: the oldest unread event is applied.
oldest(events) == events[1]

\* Line 290: events.last().
latest(events) == events[Len(events)]

\* Lines 276-316: the events the two readers take, which of the backend
\* scale-factor events is applied (0: none) and whether WindowResized is
\* sent for it.  found: the window of the latest event and its Window
\* component exist.
idle_drain(redraws, scales, win, found, keeps_logical_size) ==
    LET applies == scales # <<>> /\ found
        r == react_to_scale_factor_changed(win, latest(scales),
                                           keeps_logical_size)
    IN  [redraws_read |-> redraws,
         scale_read |-> scales,
         applied |-> IF applies THEN latest(scales) ELSE 0,
         resized |-> applies /\ r.logical_size # <<>>]

\* WinitEvent::AboutToWait with the two queues.  sent: the RequestRedraw
\* events the systems of app.update() send.  The settings and the focus
\* stay what they are.
AboutToWaitOn(lookup, cf, sent) ==
    LET found == scale_events = <<>> \/ lookup = "ok"
        keeps_logical_size == rescaling_setter
        applies == scale_events # <<>> /\ found
    IN  /\ IF found THEN AboutToWait(redraw_events > 0, cf)
                    ELSE AboutToWaitReturn(redraw_events > 0)
        /\ settings' = settings /\ focused' = focused
        /\ ~last'.app_updated => sent = 0
        /\ drain' = idle_drain(redraw_events, scale_events, window, found,
                               keeps_logical_size)
        /\ window' = IF applies
                     THEN react_to_scale_factor_changed(
                              window, latest(scale_events),
                              keeps_logical_size).window
                     ELSE window
        /\ redraw_events' = sent
        /\ scale_events' = <<>>
        /\ log' = NoLog
        /\ UNCHANGED <<rescaling_setter, returned, lib_vars, state_vars,
                       recording>>

\* The window is visible: continuous mode selects ControlFlow::Wait.
IdleOn ==
    \E lookup \in Lookups, sent \in 0..MaxQueue :
        AboutToWaitOn(lookup, "Wait", sent)

WindowOn ==
    \E event \in AllWindowEvents, lookup \in Lookups, size \in Sizes,
       factor \in Factors :
        WindowEventOn(event, lookup, size, factor)

\* A focused window of any size in Sizes, with or without a forced scale
\* factor, and either implementation of the scale-factor setter.
InitWindow ==
    /\ InitRunner
    /\ focused
    /\ rescaling_setter \in BOOLEAN
    /\ event_received = FALSE
    /\ app_exit_pending = FALSE
    /\ event_filter = "None"
    /\ plugins_state = "Cleaned"
    /\ settings = game
    /\ \E size \in Sizes, factor \in Factors, override \in {0, 2} :
           window = WindowResolution(size[1], size[2], factor, override)
    /\ redraw_events = 0
    /\ scale_events = <<>>
    /\ window_event_received = FALSE
    /\ device_event_received = FALSE
    /\ proxy_wake = "none"
    /\ returned = NoCall
    /\ drain = NoDrain
    /\ log = NoLog
    /\ NoAppState
    /\ recording = "none"

\* The window events alone, each with its effects on the Window component.
NextWindow == WindowOn

SpecWindow == InitWindow /\ [][NextWindow]_vars

ScaleFactorChangedOn ==
    \E lookup \in Lookups, factor \in Factors :
        WindowEventOn("ScaleFactorChanged", lookup, <<0, 0>>, factor)

\* The idle step with its two queues, the window event that fills the queue
\* of backend scale-factor events, and the resume signal that starts the
\* application.
NextIdle ==
    \/ IdleOn
    \/ ScaleFactorChangedOn
    \/ Resumed

\* As InitWindow, the window 801 x 601 physical pixels.
InitIdle ==
    /\ InitWindow
    /\ window.physical_width = 801 /\ window.physical_height = 601

SpecIdle == InitIdle /\ [][NextIdle]_vars

\* ---------------------------------------------------------------------------
\* WinitSettings on its own: update_mode called on any settings value.
\* ---------------------------------------------------------------------------

\* The settings values of the model: the two constructors, manual_app and
\* every pair of modes.
AllSettings ==
    {game, desktop_app, manual_app} \cup
    {[focused_mode |-> a, unfocused_mode |-> b] : a, b \in AllModes}

\* settings.update_mode(focus), called on the settings resource (&self).
UpdateModeCall(focus) ==
    /\ returned' = [calls |-> IF returned.calls < MaxCount
                              THEN returned.calls + 1 ELSE MaxCount,
                    focused |-> focus,
                    mode |-> update_mode_of(settings, focus)]
    /\ UNCHANGED <<activity_state, update_mode, event_filter,
                   startup_forced_updates, redraw_requested, wait_elapsed,
                   event_received, plugins_state, settings, focused,
                   control_flow, exiting, app_exit_pending, idle_decisions,
                   update_calls, frame_updates, woken, last, start_cause,
                   resumed_before, quiet_idles>>
    /\ UNCHANGED <<window, redraw_events, scale_events, rescaling_setter,
                   drain, log, lib_vars, state_vars, recording>>

InitSettings ==
    /\ InitRunner
    /\ InitWorld
    /\ event_received = FALSE
    /\ app_exit_pending = FALSE
    /\ event_filter = "None"
    /\ plugins_state = "Cleaned"
    /\ settings \in AllSettings

NextSettings == \E focus \in BOOLEAN : UpdateModeCall(focus)

SpecSettings == InitSettings /\ [][NextSettings]_vars

\* ---------------------------------------------------------------------------
\* The driver of lib.rs: handle_winit_event with the two received flags, the
\* AppExit check at the start of the handler and the frame update that runs
\* from the idle step or from WindowEvent::RedrawRequested.
\* ---------------------------------------------------------------------------

\* ActiveState::should_run, lib.rs 222-229.
should_run(active) == active \in {"Active", "WillSuspend", "WillResume"}

\* The record of a proxy wake-up after a handler that called neither
\* reset_on_update nor request_redraw: a finished wake-up is forgotten, an
\* unfinished one stays.
wake_kept(wake) == IF wake = "updated" THEN "none" ELSE wake

\* Faulty decision: a requested redraw alone does not wake a reactive app.
lib_should_update_without_redraw(mode, redraw, window_received, device_received, wait) ==
    IF mode.kind = "Continuous"
    THEN redraw \/ window_received \/ device_received
    ELSE \/ wait
         \/ (window_received /\ mode.react_to_window_events)
         \/ (device_received /\ mode.react_to_device_events)

\* lib.rs 416-433: should_update before the startup counter and the lifecycle
\* edges override it.
lib_should_update(mode, redraw, window_received, device_received, wait) ==
    IF mode.kind = "Continuous"
    THEN redraw \/ window_received \/ device_received
    ELSE \/ wait
         \/ redraw
         \/ (window_received /\ mode.react_to_window_events)
         \/ (device_received /\ mode.react_to_device_events)

\* run_app_update_if_should, lib.rs 804-814: whether app.update() runs in the
\* call.
run_app_update_if_should(active, plugins) ==
    should_run(active) /\ plugins = "Cleaned"

\* lib.rs 504-507: the idle step asks every window to redraw.
lib_requests_redraw(should, redraw, active) ==
    should /\ redraw /\ active # "Suspended"

\* lib.rs 508-511: the idle step calls run_app_update_if_should.
lib_calls_update(should, redraw, active, wait) ==
    should /\ ~lib_requests_redraw(should, redraw, active) /\ wait

\* lib.rs 514-551: the control flow the idle step leaves behind.  desktop: the
\* build reads the visibility of the windows (524-539); the other builds
\* always wait (540-542).
lib_control_flow_after(mode, wait, flow, desktop, visible) ==
    IF mode.kind = "Continuous"
    THEN IF ~desktop THEN Flow("Wait")
         ELSE IF flow.kind = "Poll" /\ visible THEN Flow("Wait")
         ELSE IF flow.kind = "Wait" /\ ~visible THEN Flow("Poll")
         ELSE flow
    ELSE IF checked_add(begin_frame_time, mode.wait) = "Some" /\ wait
         THEN WaitUntil(begin_frame_time + mode.wait)
         ELSE flow

\* lib.rs 330-346: the plugin stage, then the AppExit check at the start of
\* the handler; an unread AppExit ends the loop before the event is looked
\* at.
LibExit ==
    /\ ~exiting
    /\ app_exit_pending
    /\ exiting' = TRUE
    /\ app_exit_pending' = FALSE
    /\ plugins_state' = plugins_after
    /\ redraw_requested' = redraw_after_plugins
    /\ last' = Step("AppExit", FALSE, FALSE, "none")
    /\ UNCHANGED <<activity_state, update_mode, event_filter,
                   startup_forced_updates, wait_elapsed, event_received,
                   settings, focused, control_flow, idle_decisions,
                   update_calls, frame_updates, woken, start_cause,
                   resumed_before, quiet_idles>>
    /\ UNCHANGED world_vars

\* What every other handler of lib.rs shares: no AppExit is unread, the
\* plugin stage, and the variables the lib.rs driver does not have.
LibPrelude(kind, completed, sent) ==
    /\ ~exiting
    /\ ~app_exit_pending
    /\ plugins_state' = plugins_after
    /\ resumed_before' = (resumed_before \/ kind = "Resumed")
    /\ UNCHANGED <<event_filter, event_received, idle_decisions, update_calls,
                   frame_updates, woken, quiet_idles, exiting>>
    /\ UNCHANGED <<window, redraw_events, scale_events, rescaling_setter,
                   returned, drain, log, state_vars, recording>>

\* Event::AboutToWait, lib.rs 393-553.  redraw_read: the reader saw a new
\* RequestRedraw event.
LibAboutToWait(redraw_read, desktop, visible) ==
    LET next_update_mode == effective_mode
        redraw1 == redraw_after_plugins \/ redraw_read
        redraw2 == \/ redraw1
                   \/ next_update_mode # update_mode
                   \/ next_update_mode.kind = "Continuous"
        policy == lib_should_update(next_update_mode, redraw2,
                                    window_event_received,
                                    device_event_received, wait_elapsed)
        should == idle_decision(policy, startup_forced_updates, activity_state)
        active1 == activity_after_idle(activity_state)
        redraw3 == redraw2 \/ activity_state = "WillResume"
        requests == lib_requests_redraw(should, redraw3, active1)
        calls == lib_calls_update(should, redraw3, active1, wait_elapsed)
        runs == calls /\ run_app_update_if_should(active1, plugins_after)
    IN  /\ LibPrelude("AboutToWait", TRUE, "none")
        /\ update_mode' = next_update_mode
        /\ startup_forced_updates' = startup_after(startup_forced_updates)
        /\ activity_state' = active1
        /\ redraw_requested' = (redraw3 /\ ~calls)
        /\ window_event_received' = (window_event_received /\ ~calls)
        /\ device_event_received' = (device_event_received /\ ~calls)
        /\ proxy_wake' =
               IF calls THEN "none"
               ELSE IF requests /\ proxy_wake \in {"sent", "requested"}
               THEN "requested"
               ELSE wake_kept(proxy_wake)
        /\ control_flow' = lib_control_flow_after(next_update_mode, wait_elapsed,
                                                  control_flow, desktop, visible)
        /\ start_cause' = "none"
        /\ \E settings1 \in IF runs THEN SettingsSet ELSE {settings},
              focused1 \in IF runs THEN BOOLEAN ELSE {focused},
              exit \in IF runs THEN BOOLEAN ELSE {FALSE} :
            /\ settings' = settings1
            /\ focused' = focused1
            /\ app_exit_pending' = exit
        /\ last' = [NoStep EXCEPT !.event = "AboutToWait", !.completed = TRUE,
                                  !.policy = policy, !.should_update = should,
                                  !.app_updated = runs,
                                  !.redraw_issued = requests,
                                  !.redraw_latched = redraw_requested]
        /\ UNCHANGED wait_elapsed

\* Event::NewEvents(cause), lib.rs 554-562.  reached: resume <= Instant::now().
LibNewEvents(cause, reached) ==
    /\ cause \in causes_of(control_flow, last.event = "none")
    /\ cause # "WaitCancelled_Some" => reached
    /\ LibPrelude("NewEvents", TRUE, "none")
    /\ start_cause' = start_cause_kept(cause)
    /\ redraw_requested' = redraw_after_plugins
    /\ wait_elapsed' = IF cause = "WaitCancelled_Some" THEN reached ELSE TRUE
    /\ last' = Step("NewEvents", TRUE, FALSE, "none")
    /\ proxy_wake' = wake_kept(proxy_wake)
    /\ UNCHANGED <<activity_state, update_mode, startup_forced_updates,
                   settings, focused, control_flow, app_exit_pending,
                   window_event_received, device_event_received>>

\* The window events of lib.rs the driver state depends on.
LibWindowEvents ==
    {"Focused_true", "Focused_false", "CloseRequested", "RedrawRequested"}

\* Event::WindowEvent, lib.rs 563-776.  lookup # "ok": the handler returns at
\* 571 or 576.  RedrawRequested calls run_app_update_if_should (764-766).
LibWindowEvent(event, lookup) ==
    LET found == lookup = "ok"
        calls == found /\ event = "RedrawRequested"
        runs == calls /\ run_app_update_if_should(activity_state, plugins_after)
    IN  /\ LibPrelude("WindowEvent", found, "none")
        /\ window_event_received' =
               IF calls THEN FALSE ELSE (window_event_received \/ found)
        /\ device_event_received' = (device_event_received /\ ~calls)
        /\ proxy_wake' =
               IF ~calls THEN wake_kept(proxy_wake)
               ELSE IF runs /\ proxy_wake = "requested" THEN "updated"
               ELSE "none"
        /\ redraw_requested' = (redraw_after_plugins /\ ~calls)
        /\ \E settings1 \in IF runs THEN SettingsSet ELSE {settings},
              focused1 \in IF runs THEN BOOLEAN ELSE {focused},
              exit \in IF runs THEN BOOLEAN ELSE {FALSE} :
            /\ settings' = settings1
            /\ focused' = CASE found /\ event = "Focused_true" -> TRUE
                            [] found /\ event = "Focused_false" -> FALSE
                            [] OTHER -> focused1
            /\ app_exit_pending' = exit
        /\ last' = [Step(event, found, FALSE,
                         window_event_sends(event, lookup))
                       EXCEPT !.app_updated = runs, !.should_update = calls]
        /\ UNCHANGED <<activity_state, update_mode, startup_forced_updates,
                       wait_elapsed, control_flow, start_cause>>

\* Event::DeviceEvent, lib.rs 777-783.
LibDeviceEvent ==
    /\ LibPrelude("DeviceEvent", TRUE, "MouseMotion")
    /\ device_event_received' = TRUE
    /\ proxy_wake' = wake_kept(proxy_wake)
    /\ redraw_requested' = redraw_after_plugins
    /\ last' = Step("DeviceEvent", TRUE, FALSE, "MouseMotion")
    /\ UNCHANGED <<activity_state, update_mode, startup_forced_updates,
                   wait_elapsed, settings, focused, control_flow,
                   app_exit_pending, start_cause, window_event_received>>

\* Event::Suspended, lib.rs 784-789.  The loop suspends only an application
\* it has resumed.
LibSuspended ==
    /\ resumed_before
    /\ LibPrelude("Suspended", TRUE, "ApplicationLifetime::Suspended")
    /\ activity_state' = "WillSuspend"
    /\ redraw_requested' = redraw_after_plugins
    /\ last' = Step("Suspended", TRUE, FALSE, "ApplicationLifetime::Suspended")
    /\ proxy_wake' = wake_kept(proxy_wake)
    /\ UNCHANGED <<update_mode, startup_forced_updates, wait_elapsed, settings,
                   focused, control_flow, app_exit_pending, start_cause,
                   window_event_received, device_event_received>>

\* Event::Resumed, lib.rs 790-796.
LibResumed ==
    /\ LibPrelude("Resumed", TRUE, lifetime_on_resume(activity_state))
    /\ activity_state' = "WillResume"
    /\ redraw_requested' = redraw_after_plugins
    /\ last' = Step("Resumed", TRUE, FALSE, lifetime_on_resume(activity_state))
    /\ proxy_wake' = wake_kept(proxy_wake)
    /\ UNCHANGED <<update_mode, startup_forced_updates, wait_elapsed, settings,
                   focused, control_flow, app_exit_pending, start_cause,
                   window_event_received, device_event_received>>

\* Event::UserEvent(RequestRedraw), lib.rs 797-799.
LibUserEvent ==
    /\ LibPrelude("UserEvent", TRUE, "none")
    /\ redraw_requested' = TRUE
    /\ last' = Step("UserEvent", TRUE, FALSE, "none")
    /\ proxy_wake' = "sent"
    /\ UNCHANGED <<activity_state, update_mode, startup_forced_updates,
                   wait_elapsed, settings, focused, control_flow,
                   app_exit_pending, start_cause, window_event_received,
                   device_event_received>>

LibIdle ==
    \E redraw_read \in BOOLEAN, desktop \in BOOLEAN, visible \in BOOLEAN :
        LibAboutToWait(redraw_read, desktop, visible)

LibTimer ==
    \E cause \in StartCauses, reached \in BOOLEAN : LibNewEvents(cause, reached)

LibWindow ==
    \E event \in LibWindowEvents, lookup \in Lookups :
        LibWindowEvent(event, lookup)

\* winit_runner of lib.rs: the plugins are finished before the loop starts
\* when they are ready (256-259).
InitLib ==
    /\ InitRunner
    /\ InitWorld
    /\ event_received = FALSE
    /\ app_exit_pending = FALSE
    /\ event_filter = "None"
    /\ plugins_state \in {"Adding", "Cleaned"}
    /\ settings \in SettingsSet

NextLib ==
    \/ LibExit
    \/ LibIdle
    \/ LibTimer
    \/ LibWindow
    \/ LibDeviceEvent
    \/ LibSuspended
    \/ LibResumed
    \/ LibUserEvent
    \/ PluginsReady

SpecLib == InitLib /\ [][NextLib]_vars

\* ---------------------------------------------------------------------------
\* bevy_state: the systems that run against State<S> and NextState<S>
\* ---------------------------------------------------------------------------

driver_vars ==
    <<activity_state, update_mode, event_filter, startup_forced_updates,
      redraw_requested, wait_elapsed, event_received, plugins_state, settings,
      focused, control_flow, exiting, idle_decisions, update_calls,
      frame_updates, woken, last, start_cause, app_exit_pending,
      resumed_before, quiet_idles>>

\* NextState::set: a system asks for a state.
SetNextState(value) ==
    /\ next_state.kind # "absent"
    /\ next_state' = Pending(value)
    /\ applied' = NoApply
    /\ UNCHANGED <<current_state, transition_events>>
    /\ UNCHANGED driver_vars
    /\ UNCHANGED <<window, redraw_events, scale_events, rescaling_setter,
                   returned, drain, log, lib_vars, recording>>

\* One run of the system apply_state_transition.
ApplyStateTransition ==
    LET r == apply_state_transition(current_state, next_state)
    IN  /\ Len(transition_events) + Len(r.sent) <= MaxQueue
        /\ current_state' = r.current_state
        /\ next_state' = r.next_state
        /\ transition_events' = transition_events \o r.sent
        /\ applied' = [called |-> TRUE, before |-> current_state,
                       pending |-> next_state]
        /\ UNCHANGED driver_vars
        /\ UNCHANGED <<window, redraw_events, scale_events, rescaling_setter,
                       returned, drain, log, lib_vars, recording>>

SetNext == \E value \in States : SetNextState(value)

\* App::init_state / insert_state put both resources in place; an application
\* that registered the systems by hand may have inserted only one of them.
InitState ==
    /\ InitRunner
    /\ InitDriverWorld
    /\ event_received = FALSE
    /\ app_exit_pending = FALSE
    /\ event_filter = "None"
    /\ plugins_state = "Cleaned"
    /\ settings = game
    /\ current_state \in States \cup {"absent"}
    /\ next_state \in {NoNextState, Unchanged} \cup {Pending(s) : s \in States}
    /\ transition_events = <<>>
    /\ applied = NoApply
    /\ recording = "none"

NextState == SetNext \/ ApplyStateTransition

SpecState == InitState /\ [][NextState]_vars

TypeOK ==
    /\ activity_state \in UpdateStates
    /\ startup_forced_updates \in 0..5
    /\ plugins_state \in {"Adding", "Ready", "Cleaned"}
    /\ control_flow.kind \in {"Poll", "Wait", "WaitUntil"}
    /\ start_cause \in StartCauses \cup {"none"}
    /\ exiting \in BOOLEAN /\ app_exit_pending \in BOOLEAN
    /\ resumed_before \in BOOLEAN
    /\ recording \in {"none", "counters", "start_cause"}
    /\ quiet_idles \in 0..QuietIdles
    /\ redraw_events \in 0..MaxQueue
    /\ Len(scale_events) <= MaxQueue
    /\ window.scale_factor \in Factors
    /\ window_event_received \in BOOLEAN /\ device_event_received \in BOOLEAN
    /\ proxy_wake \in {"none", "sent", "requested", "updated"}
    /\ current_state \in States \cup {"absent"}
    /\ next_state.kind \in {"absent", "Unchanged", "Pending"}
    /\ Len(transition_events) <= MaxQueue
    /\ applied.called \in BOOLEAN
    /\ rescaling_setter \in BOOLEAN

\* ---------------------------------------------------------------------------
\* Properties
\* ---------------------------------------------------------------------------

\* C1 (as stated): a frame update never runs at an idle step taken while
\* activity_state is NotYetStarted or Suspended, whatever wake conditions
\* (wait_elapsed, event_received, startup_forced_updates) hold.
C1_NeverUpdatesWhileInactive ==
    [][last'.app_updated => is_active(activity_state)]_vars

\* C1 (amended): a frame update runs only in an idle step, and an idle step
\* entered in NotYetStarted or Suspended runs one only while
\* startup_forced_updates > 0; wait_elapsed and event_received never cause
\* one there.
C1_InactiveUpdatesOnlyAtStartup ==
    [][last'.app_updated =>
          /\ last'.event = "AboutToWait"
          /\ is_active(activity_state) \/ startup_forced_updates > 0]_vars

\* C1 witness: an idle step was decided while Suspended with both wake
\* conditions set and the startup updates used up, and no update ran.
C1_Witness ==
    /\ last.event = "AboutToWait" /\ last.completed
    /\ activity_state = "Suspended"
    /\ wait_elapsed /\ event_received
    /\ startup_forced_updates = 0
    /\ plugins_state = "Cleaned"
    /\ ~last.app_updated

\* C2 (as stated): starting from startup_forced_updates = 5, exactly 5 frame
\* updates have run when the first 5 idle decisions have been taken.
C2_FiveFrameUpdates == idle_decisions = 5 => frame_updates = 5

\* C2 (amended): each of the first 5 idle steps that reach the decision calls
\* run_app_update whatever the policy says, which runs app.update() exactly
\* when the plugins are cleaned up; the counter goes down by one per decision
\* and from the 6th decision on the decision is should_update() or a lifecycle
\* edge.
C2_StartupForcedUpdates ==
    /\ [](idle_decisions < MaxCount /\ idle_decisions <= 5 =>
            /\ update_calls = idle_decisions
            /\ startup_forced_updates = 5 - idle_decisions
            /\ frame_updates <= update_calls)
    /\ [](idle_decisions >= 5 => startup_forced_updates = 0)
    /\ [][last'.event = "AboutToWait" /\ last'.completed =>
            /\ last'.app_updated =
                   (last'.should_update /\ plugins_state' = "Cleaned")
            /\ startup_forced_updates > 0 => last'.should_update
            /\ startup_forced_updates = 0 =>
                   last'.should_update =
                       (\/ last'.policy
                        \/ activity_state \in {"WillSuspend", "WillResume"})]_vars

\* C2 witness: five idle decisions taken before the app was ever resumed (the
\* policy says no), and five frame updates ran.
C2_Witness ==
    /\ idle_decisions = 5 /\ update_calls = 5 /\ frame_updates = 5
    /\ startup_forced_updates = 0
    /\ activity_state = "NotYetStarted"

\* C3 (as stated): a suspend signal that arrived with startup_forced_updates
\* = 0 and no wake flag set is followed by exactly one more frame update, run
\* by the step that reaches Suspended.
C3_OneFrameUpdateOnSuspend ==
    [][/\ activity_state = "WillSuspend"
       /\ startup_forced_updates = 0 /\ ~event_received /\ ~wait_elapsed
       /\ activity_state' = "Suspended"
       => last'.app_updated]_vars

\* C3 (amended): after a suspend signal no frame update runs until the idle
\* step that sets Suspended; that step calls run_app_update once, which runs
\* app.update() exactly when the plugins are cleaned up.
C3_OneUpdateCallOnSuspend ==
    [][activity_state = "WillSuspend" =>
          /\ activity_state' = "Suspended" =>
                 /\ last'.event = "AboutToWait"
                 /\ last'.should_update
                 /\ last'.app_updated = (plugins_state' = "Cleaned")
          /\ activity_state' # "Suspended" => ~last'.app_updated]_vars

\* C3 witness: Suspended was just reached by an update the policy did not ask
\* for, after the startup updates, with no wake flag set.
C3_Witness ==
    /\ last.event = "AboutToWait" /\ last.app_updated /\ ~last.policy
    /\ activity_state = "Suspended"
    /\ idle_decisions = MaxCount
    /\ ~event_received /\ ~wait_elapsed

\* C4 (as stated): from Active a suspend signal sets WillSuspend, the next
\* idle step runs a frame update and sets Suspended, and from Suspended no
\* frame update runs and is_active() stays false until a resume signal is
\* handled.
C4_SuspendEdgeAsStated ==
    [][/\ activity_state = "Active" /\ last'.event = "Suspended" =>
              activity_state' = "WillSuspend"
       /\ activity_state = "WillSuspend" /\ last'.event = "AboutToWait" =>
              last'.app_updated /\ activity_state' = "Suspended"
       /\ activity_state = "Suspended" =>
              /\ ~last'.app_updated
              /\ last'.event # "Resumed" => activity_state' = "Suspended"]_vars

\* C4 (amended): from Active a suspend signal sets WillSuspend; the next idle
\* step that reaches the decision calls run_app_update (app.update() runs
\* when the plugins are cleaned up) and sets Suspended; while Suspended,
\* is_active() is false, an idle step runs a frame update only while
\* startup_forced_updates > 0, and only a resume or a further suspend signal
\* leaves Suspended.
C4_SuspendEdge ==
    [][/\ activity_state = "Active" /\ last'.event = "Suspended" =>
              activity_state' = "WillSuspend"
       /\ activity_state = "WillSuspend" /\ last'.event = "AboutToWait"
              /\ last'.completed =>
              /\ last'.should_update
              /\ last'.app_updated = (plugins_state' = "Cleaned")
              /\ activity_state' = "Suspended"
       /\ activity_state = "Suspended" =>
              /\ ~is_active(activity_state)
              /\ last'.app_updated => startup_forced_updates > 0
              /\ last'.event \notin {"Resumed", "Suspended"} =>
                     activity_state' = "Suspended"]_vars

\* C4 witness: an idle decision taken while Suspended, the wait elapsed, and
\* no update was decided.
C4_Witness ==
    /\ last.event = "AboutToWait" /\ last.completed /\ ~last.should_update
    /\ activity_state = "Suspended"
    /\ wait_elapsed
    /\ idle_decisions = MaxCount

\* C5 (as stated): from Suspended a resume signal sets WillResume, and the
\* next idle step runs one frame update, raises the redraw flag (flushed as a
\* redraw request by the same step) and sets Active.
C5_ResumeEdgeAsStated ==
    [][/\ activity_state = "Suspended" /\ last'.event = "Resumed" =>
              activity_state' = "WillResume"
       /\ activity_state = "WillResume" /\ last'.event = "AboutToWait" =>
              /\ last'.app_updated
              /\ last'.redraw_issued
              /\ activity_state' = "Active"]_vars

\* C5 (amended): from Suspended a resume signal sets WillResume, and the next
\* idle step that reaches the decision calls run_app_update (app.update() runs
\* when the plugins are cleaned up), raises the redraw flag, which the same
\* step flushes as a redraw request to every window, and sets Active.
C5_ResumeEdge ==
    [][/\ activity_state = "Suspended" /\ last'.event = "Resumed" =>
              activity_state' = "WillResume"
       /\ activity_state = "WillResume" /\ last'.event = "AboutToWait"
              /\ last'.completed =>
              /\ last'.should_update
              /\ last'.app_updated = (plugins_state' = "Cleaned")
              /\ last'.redraw_issued /\ ~redraw_requested'
              /\ activity_state' = "Active"]_vars

\* C5 witness: Active was just reached by an update the policy did not ask
\* for, after the startup updates, and the redraw was issued.
C5_Witness ==
    /\ last.event = "AboutToWait" /\ last.app_updated /\ ~last.policy
    /\ last.redraw_issued
    /\ activity_state = "Active"
    /\ idle_decisions = MaxCount

\* C6: under a reactive effective mode, the idle decision is false whenever
\* wait_elapsed and event_received are false, startup_forced_updates is 0 and
\* activity_state is neither WillSuspend nor WillResume.
C6_ReactiveNoWakeNoUpdate ==
    [][/\ last'.event = "AboutToWait" /\ last'.completed
       /\ effective_mode.kind = "Reactive"
       /\ ~wait_elapsed /\ ~event_received
       /\ startup_forced_updates = 0
       /\ activity_state \notin {"WillSuspend", "WillResume"}
       => ~last'.should_update /\ ~last'.app_updated]_vars

\* C6 witness: an idle decision in a reactive mode while Active, nothing to
\* wake for, and no update.
C6_Witness ==
    /\ last.event = "AboutToWait" /\ last.completed /\ ~last.should_update
    /\ update_mode.kind = "Reactive"
    /\ activity_state = "Active"
    /\ ~wait_elapsed /\ ~event_received
    /\ idle_decisions = MaxCount

\* C7: under a reactive mode, with the startup updates used up and outside
\* the suspend/resume edges, an idle step runs a frame update only if the
\* wait has elapsed or the filter passed an event since the previous frame
\* update.
C7_ReactiveUpdateNeedsWake ==
    [][/\ last'.event = "AboutToWait" /\ last'.completed
       /\ effective_mode.kind = "Reactive"
       /\ startup_forced_updates = 0
       /\ activity_state \notin {"WillSuspend", "WillResume"}
       /\ last'.app_updated
       => wait_elapsed \/ woken]_vars

\* C8: event_received is true only if the filter passed an event since the
\* last frame update, and it is false right after every frame update.
C8_WakeFlagClearedByUpdate ==
    /\ last.app_updated => ~event_received
    /\ event_received => woken

\* C9: for a reactive mode whose flag for the event's category is off the
\* filter returns false and the wake flag is left as it was, whatever the
\* installed predicate returns; in continuous mode the gate is open for every
\* category, so the result is the predicate's (true when none is installed).
C9_CategoryGate ==
    [][LET k == last'.event
           m == effective_mode
       IN  /\ /\ m.kind = "Reactive"
              /\ \/ k = "WindowEvent" /\ ~m.react_to_window_events
                 \/ k = "DeviceEvent" /\ ~m.react_to_device_events
                 \/ k = "UserEvent" /\ ~m.react_to_user_events
              => ~last'.filter_result /\ event_received' = event_received
           /\ /\ m.kind = "Continuous"
              /\ k \in {"WindowEvent", "DeviceEvent", "UserEvent"}
              => last'.filter_result =
                     (event_filter = "None" \/ filter_closure(event_filter, k, m))]_vars

\* C9 witness: a device event under a reactive mode with device events off
\* and a predicate that accepts device events: rejected, flag still clear.
C9_Witness ==
    /\ last.event = "DeviceEvent" /\ ~last.filter_result
    /\ event_filter = "RejectUser"
    /\ effective_mode.kind = "Reactive"
    /\ ~effective_mode.react_to_device_events
    /\ ~event_received

\* C10: handle returns (gate open) AND (no predicate installed OR the
\* predicate's result), the gate being open in continuous mode and, in a
\* reactive mode, for the categories whose flag is on.
C10_HandleResult ==
    LET k == last.event
        m == effective_mode
        gate == \/ m.kind = "Continuous"
                \/ k = "WindowEvent" /\ m.react_to_window_events
                \/ k = "DeviceEvent" /\ m.react_to_device_events
                \/ k = "UserEvent" /\ m.react_to_user_events
    IN  k \in EventKinds =>
            last.filter_result =
                (gate /\ (event_filter = "None" \/ filter_closure(event_filter, k, m)))

\* C10 witness: the default filter passes a user event in continuous mode
\* (tests::test_default).
C10_Witness ==
    /\ last.event = "UserEvent" /\ last.filter_result
    /\ event_filter = "None"
    /\ effective_mode.kind = "Continuous"

\* Events that are neither window, device nor user events.
Uncategorised == EventKinds \ {"WindowEvent", "DeviceEvent", "UserEvent"}

\* C11 as stated: the filter never returns true for an event that is neither
\* a window, a device nor a user event.
C11_UncategorisedNeverPass ==
    last.event \in Uncategorised => ~last.filter_result

\* C11: in a reactive mode the filter returns false for every event that is
\* neither a window, a device nor a user event and handle_event leaves the
\* wake flag as it was; in continuous mode the gate is open for these events
\* too, so the result is the predicate's (true when none is installed) and the
\* wake flag is set when it is true.
C11_UncategorisedGate ==
    [][LET k == last'.event
           m == effective_mode
       IN  k \in Uncategorised =>
               /\ m.kind = "Reactive" =>
                      ~last'.filter_result /\ event_received' = event_received
               /\ m.kind = "Continuous" =>
                      /\ last'.filter_result =
                             (event_filter = "None" \/ filter_closure(event_filter, k, m))
                      /\ event_received' = (event_received \/ last'.filter_result)]_vars

\* C11 witness: a resume signal under a reactive mode that reacts to every
\* category, no predicate installed: rejected, wake flag still clear.
C11_Witness ==
    /\ last.event = "Resumed" /\ ~last.filter_result
    /\ event_filter = "None"
    /\ effective_mode.kind = "Reactive"
    /\ effective_mode.react_to_window_events
    /\ ~event_received

\* What a step that changes the cached mode to the post-state's effective
\* mode must have done (lines 400-407): redraw flag set (flushed in the same
\* step or still set), wait_elapsed true, new mode cached.
ModeChangeObserved ==
    /\ last'.redraw_issued \/ redraw_requested'
    /\ wait_elapsed'
    /\ update_mode' = update_mode_of(settings', focused')

\* C12 as stated: every idle step at which the effective mode differs from
\* the cached one sets the redraw flag and wait_elapsed and caches the mode.
C12_ModeChangeAtEveryIdleStep ==
    [][last'.event = "AboutToWait"
       /\ update_mode_of(settings', focused') # update_mode
       => ModeChangeObserved]_vars

\* C12: an idle step that reaches the comparison of line 400 (it does not
\* return at 296/301) ends with the cached mode equal to the effective mode
\* of the settings and focus it leaves behind, and when that mode differs
\* from the one cached before, it has set the redraw flag and wait_elapsed;
\* an idle step that returns early leaves the cached mode and wait_elapsed
\* alone.
C12_ModeChangeObserved ==
    [][last'.event = "AboutToWait" =>
           IF last'.completed
           THEN /\ update_mode' = update_mode_of(settings', focused')
                /\ update_mode' # update_mode => ModeChangeObserved
           ELSE update_mode' = update_mode /\ wait_elapsed' = wait_elapsed]_vars

\* C12 witness: the first idle step that reaches the decision runs a frame
\* update and leaves a reactive mode cached (the mode cached at construction
\* is Continuous): wait_elapsed is set and the redraw was issued.
C12_Witness ==
    /\ last.event = "AboutToWait" /\ last.completed /\ last.app_updated
    /\ idle_decisions = 1
    /\ update_mode.kind = "Reactive"
    /\ update_mode = effective_mode
    /\ wait_elapsed /\ last.redraw_issued

\* C13 as stated: a redraw flag that is set stays set until the next idle
\* step, and that idle step issues the redraw requests and clears the flag.
C13_FlushedAtNextIdleStep ==
    [][redraw_requested =>
           IF last'.event = "AboutToWait"
           THEN last'.redraw_issued /\ ~redraw_requested'
           ELSE redraw_requested']_vars

\* C13: a redraw flag that is set stays set, and no redraw request is issued,
\* until an idle step that runs to completion and ends with activity_state
\* other than Suspended; that step issues the redraw requests and clears the
\* flag.
C13_FlushedAtIdleUnlessSuspended ==
    [][redraw_requested =>
           IF /\ last'.event = "AboutToWait" /\ last'.completed
              /\ activity_state' # "Suspended"
           THEN last'.redraw_issued /\ ~redraw_requested'
           ELSE redraw_requested' /\ ~last'.redraw_issued]_vars

\* C13 witness: an idle step found the flag set by an earlier event, issued
\* the redraw requests and cleared it.
C13_Witness ==
    /\ last.event = "AboutToWait" /\ last.completed
    /\ last.redraw_latched
    /\ last.redraw_issued
    /\ ~redraw_requested
    /\ activity_state # "Suspended"

C14_WitnessNotElapsed ==
    /\ last.event = "AboutToWait" /\ last.completed
    /\ update_mode.kind = "Reactive" /\ update_mode.wait = 16
    /\ ~wait_elapsed
    /\ ~last.armed
    /\ control_flow = WaitUntil(begin_frame_time + 16)

\* C15: after NewEvents(cause) wait_elapsed is false when the cause is a
\* cancelled wait that carries a resume time, and true for every other cause
\* (expired deadline, cancelled wait without resume time, Poll, Init).
C15_WaitElapsedFromCause ==
    [][last'.event = "NewEvents" =>
           /\ start_cause' \in StartCauses
           /\ wait_elapsed' = (start_cause' # "WaitCancelled_Some")]_vars

\* C15 witness: the loop woke before the armed deadline; wait_elapsed, true
\* since the step that armed the deadline, is false again.
C15_Witness ==
    /\ last.event = "NewEvents"
    /\ start_cause = "WaitCancelled_Some"
    /\ control_flow.kind = "WaitUntil"
    /\ ~wait_elapsed

\* C15, other causes: an expired deadline, a cancelled wait without resume
\* time, Poll and Init leave wait_elapsed true.
C15_WitnessElapsed ==
    /\ last.event = "NewEvents"
    /\ start_cause = "WaitCancelled_None"
    /\ wait_elapsed

\* The event belongs to a category the reactive mode has switched off.
category_disabled(kind, mode) ==
    /\ mode.kind = "Reactive"
    /\ \/ kind = "WindowEvent" /\ ~mode.react_to_window_events
       \/ kind = "DeviceEvent" /\ ~mode.react_to_device_events
       \/ kind = "UserEvent" /\ ~mode.react_to_user_events

\* The last step delivered an event of a disabled category in a loop
\* iteration that was not started by an expired deadline, and nothing else
\* asks for an update: startup updates exhausted, no lifecycle edge pending,
\* wake flag clear.
AbsorbedEventPending ==
    /\ category_disabled(last.event, effective_mode)
    /\ ~last.filter_result
    /\ startup_forced_updates = 0
    /\ activity_state \notin {"WillSuspend", "WillResume"}
    /\ ~event_received
    /\ start_cause \in StartCauses \ {"ResumeTimeReached"}

\* C16: in a reactive mode, after the delivery of an event whose category is
\* disabled, the following idle step runs no frame update when startup
\* updates are exhausted, no lifecycle edge is pending, the wake flag is clear
\* and no deadline has expired, whether or not a deadline is armed.
C16_AbsorbedEventNoUpdate ==
    [][AbsorbedEventPending /\ last'.event = "AboutToWait"
       => ~last'.app_updated]_vars

C18_UnknownWindowSkipped ==
    [][last'.event = "WindowEvent" =>
           IF last'.completed
           THEN last'.sent \in {"WindowFocused", "WindowCloseRequested"}
           ELSE /\ last'.sent = "none"
                /\ focused' = focused
                /\ settings' = settings
                /\ activity_state' = activity_state
                /\ ~exiting']_vars

\* C18 witness: a window event for a missing window was skipped while a
\* window had focus; the loop goes on.
C18_Witness ==
    /\ last.event = "WindowEvent" /\ ~last.completed
    /\ last.sent = "none"
    /\ focused
    /\ ~exiting

C19_WitnessStarted ==
    /\ last.event = "Resumed"
    /\ last.sent = "ApplicationLifetime::Started"
    /\ activity_state = "WillResume"

\* The transition table of the lifecycle state: <<from, to, event>>.
TransitionTable ==
    {<<"NotYetStarted", "WillResume", "Resumed">>,
     <<"Active", "WillSuspend", "Suspended">>,
     <<"WillSuspend", "Suspended", "AboutToWait">>,
     <<"WillResume", "Active", "AboutToWait">>,
     <<"Suspended", "WillResume", "Resumed">>}

\* C20 as stated: activity_state changes only along the edges of the
\* transition table.
C20_OnlyTableEdges ==
    [][activity_state' # activity_state =>
           <<activity_state, activity_state', last'.event>> \in TransitionTable]_vars

\* C20: activity_state changes only in three ways: a resume signal sets
\* WillResume from whatever state it finds, a suspend signal sets WillSuspend
\* from whatever state it finds, and an idle step that reaches the decision
\* takes WillSuspend to Suspended and WillResume to Active; every edge of the
\* transition table is among these, and the signals also take edges outside
\* it (such as WillSuspend to WillResume).
C20_LifecycleEdges ==
    [][/\ activity_state' # activity_state =>
              \/ last'.event = "Resumed" /\ activity_state' = "WillResume"
              \/ last'.event = "Suspended" /\ activity_state' = "WillSuspend"
              \/ /\ last'.event = "AboutToWait" /\ last'.completed
                 /\ <<activity_state, activity_state'>> \in
                        {<<"WillSuspend", "Suspended">>, <<"WillResume", "Active">>}
       /\ last'.event = "Resumed" => activity_state' = "WillResume"
       /\ last'.event = "Suspended" => activity_state' = "WillSuspend"
       /\ last'.event = "AboutToWait" /\ last'.completed =>
              activity_state' \notin {"WillSuspend", "WillResume"}]_vars

\* C20 witness: after the startup updates an idle step forced an update
\* without the policy asking for one and left the app Active: it took the
\* edge from WillResume.
C20_Witness ==
    /\ last.event = "AboutToWait" /\ last.completed
    /\ last.should_update /\ ~last.policy
    /\ startup_forced_updates = 0
    /\ idle_decisions = MaxCount
    /\ activity_state = "Active"
    /\ resumed_before

\* C21 as stated: every idle step handled in WillSuspend ends in Suspended,
\* every idle step handled in WillResume ends in Active, and a frame update
\* runs in that step.
C21_EdgeAtEveryIdleStep ==
    [][last'.event = "AboutToWait" =>
           /\ activity_state = "WillSuspend" =>
                  activity_state' = "Suspended" /\ last'.app_updated
           /\ activity_state = "WillResume" =>
                  activity_state' = "Active" /\ last'.app_updated]_vars

\* C21: an idle step that reaches the decision in WillSuspend ends in
\* Suspended, and one that reaches it in WillResume ends in Active, whatever
\* the policy says; it calls run_app_update once, and app.update() runs in
\* it exactly when the plugins are cleaned up; an idle step that returns
\* early takes no edge and runs no update.
C21_EdgeForcesOneUpdate ==
    [][last'.event = "AboutToWait"
       /\ activity_state \in {"WillSuspend", "WillResume"} =>
           IF last'.completed
           THEN /\ activity_state' =
                       IF activity_state = "WillSuspend" THEN "Suspended"
                       ELSE "Active"
                /\ last'.should_update
                /\ last'.app_updated = (plugins_state' = "Cleaned")
                /\ idle_decisions < MaxCount - 1 =>
                       update_calls' = update_calls + 1
           ELSE /\ activity_state' = activity_state
                /\ ~last'.should_update /\ ~last'.app_updated
                /\ update_calls' = update_calls]_vars

\* C21 witness: after the startup updates, an idle step whose policy asked
\* for no update ran one and left the app Suspended.
C21_Witness ==
    /\ last.event = "AboutToWait" /\ last.completed
    /\ last.should_update /\ last.app_updated /\ ~last.policy
    /\ startup_forced_updates = 0
    /\ idle_decisions = MaxCount
    /\ activity_state = "Suspended"

\* C22 as stated: with game() and a focused window, the startup updates used
\* up and wait_elapsed false, the idle step that follows three idle
\* iterations without events runs no frame update.
C22_QuietGameNoUpdate ==
    [][QuietGame /\ quiet_idles = QuietIdles /\ last'.event = "AboutToWait"
       => ~last'.app_updated]_vars

\* C22: with game() and a focused window (continuous mode), the default
\* filter and the app Active, the idle step that follows three idle
\* iterations without events, with the startup updates used up and
\* wait_elapsed false, calls run_app_update when it reaches the decision (the
\* idle event itself passes the continuous gate), and app.update() runs in it
\* exactly when the plugins are cleaned up.
C22_QuietGameStillUpdates ==
    [][/\ QuietGame /\ quiet_idles = QuietIdles
       /\ event_filter = "None" /\ activity_state = "Active"
       /\ last'.event = "AboutToWait" /\ last'.completed
       => /\ last'.should_update
          /\ last'.app_updated = (plugins_state' = "Cleaned")]_vars

\* C22 witness: the fourth idle step in a row without events, in the quiet
\* game() state before and after, ran a frame update.
C22_Witness ==
    /\ quiet_idles = QuietIdles
    /\ last.event = "AboutToWait" /\ last.completed /\ last.app_updated
    /\ last.policy
    /\ QuietGame
    /\ activity_state = "Active"
    /\ idle_decisions = MaxCount

\* C23 as stated: when the idle step applies a backend scale-factor change,
\* WindowResized is sent if and only if the logical width or height of the
\* window after the change differs from what it was before.
C23_ResizedIffLogicalSizeChanged ==
    [][/\ last'.event = "AboutToWait" /\ last'.completed
       /\ scale_events # <<>>
       => (drain'.resized <=>
              \/ ~relative_eq(width(window'), width(window))
              \/ ~relative_eq(height(window'), height(window)))]_vars

\* C24 as stated: a delivered user event leaves a redraw requested and is
\* forwarded to the world as one engine event.
C24_UserEventMarksRedraw ==
    [][last'.event = "UserEvent" =>
           redraw_requested' /\ last'.sent = "UserEvent"]_vars

\* C25 as stated: every window event that is handled sends exactly one engine
\* event, after every change it makes to the Window component.
C25_ExactlyOneEngineEvent ==
    last.event = "WindowEvent" /\ last.completed =>
        Sends(log.effects) = 1 /\ MutationsFirst(log.effects)

\* C25: a window event that is handled sends one engine event, except that a
\* pressed key with text sends two (ReceivedCharacter, then KeyboardInput), a
\* scale-factor change sends WindowBackendScaleFactorChanged and, with no
\* forced factor and a factor that differs from the current one, also
\* WindowScaleFactorChanged, and an event of the catch-all arm sends none;
\* every change to the Window component comes before the engine event.
C25_EngineEventsAfterMutations ==
    last.event = "WindowEvent" /\ last.completed =>
        /\ MutationsFirst(log.effects)
        /\ Sends(log.effects) =
               CASE log.event = "KeyboardInput_text" -> 2
                 [] log.event = "ScaleFactorChanged" ->
                        IF /\ window.scale_factor_override = 0
                           /\ scale_events[Len(scale_events)] # window.scale_factor
                        THEN 2 ELSE 1
                 [] log.event = "Other" -> 0
                 [] OTHER -> 1
        /\ log.event \in {"Resized", "CursorMoved", "CursorLeft", "Moved",
                          "Focused_true", "Focused_false"} =>
               Len(log.effects) = 2 /\ log.effects[1] \in Mutations

\* C25 witness: a focus event was handled: the Window component was changed
\* and then WindowFocused was sent.
C25_Witness ==
    /\ last.event = "WindowEvent" /\ last.completed
    /\ log = [event |-> "Focused_false",
              effects |-> <<"set focused", "send WindowFocused">>]
    /\ ~focused
    /\ last.sent = "WindowFocused"

\* C26: an idle step reads every queued RequestRedraw and backend
\* scale-factor event (nothing it read is left in the queues); any number of
\* redraw requests leaves one redraw flag, issued in the step or still
\* latched after it; of the scale-factor events only the latest is applied
\* to the window, and none when its window is not found.
C26_QueuesDrainedLatestApplied ==
    [][last'.event = "AboutToWait" =>
           /\ drain'.redraws_read = redraw_events
           /\ drain'.scale_read = scale_events
           /\ scale_events' = <<>>
           /\ ~last'.app_updated => redraw_events' = 0
           /\ redraw_events > 0 => last'.redraw_issued \/ redraw_requested'
           /\ IF scale_events # <<>> /\ last'.completed
              THEN /\ drain'.applied = scale_events[Len(scale_events)]
                   /\ window'.scale_factor = scale_events[Len(scale_events)]
              ELSE /\ drain'.applied = 0
                   /\ window' = window
           /\ scale_events # <<>> => last'.completed = (drain'.applied # 0)]_vars

\* C26 witness: an idle step read two redraw requests and two scale-factor
\* events, issued one redraw and applied the second event only.
C26_Witness ==
    /\ last.event = "AboutToWait" /\ last.completed
    /\ drain.redraws_read = 2
    /\ drain.scale_read = <<2, 1>>
    /\ drain.applied = 1
    /\ window.scale_factor = 1
    /\ last.redraw_issued /\ ~redraw_requested
    /\ scale_events = <<>>

\* C27: a call of update_mode returns focused_mode when its argument is true
\* and unfocused_mode otherwise, for every settings value; it leaves the
\* settings as they were, and a call that repeats the argument of the call
\* before it returns the same mode.
C27_UpdateModeSelects ==
    [][/\ returned'.mode = IF returned'.focused THEN settings.focused_mode
                           ELSE settings.unfocused_mode
       /\ returned'.mode.kind \in {"Continuous", "Reactive"}
       /\ settings' = settings
       /\ returned.calls > 0 /\ returned'.focused = returned.focused =>
              returned'.mode = returned.mode]_vars

\* C27 witness: update_mode(false) was called twice or more on settings whose
\* two modes differ, and returned the unfocused one.
C27_Witness ==
    /\ returned.calls >= 2
    /\ ~returned.focused
    /\ settings.focused_mode # settings.unfocused_mode
    /\ returned.mode = settings.unfocused_mode

\* C28 as stated: update_mode on WinitSettings::game() returns the continuous
\* mode when focused and the low-power reactive mode (window and user events,
\* no device events) with an interval of 1/60 s when unfocused; on
\* WinitSettings::desktop_app() it returns the fully reactive mode with an
\* interval of 1 s when focused and the low-power reactive mode with an
\* interval of 60 s when unfocused.
C28_ConstructorModes ==
    returned.calls > 0 =>
        /\ settings = game /\ returned.focused =>
               returned.mode = Continuous
        /\ settings = game /\ ~returned.focused =>
               returned.mode = reactive_low_power_at_target_interval(16)
        /\ settings = desktop_app /\ returned.focused =>
               returned.mode = reactive_at_target_interval(1000)
        /\ settings = desktop_app /\ ~returned.focused =>
               returned.mode = reactive_low_power_at_target_interval(60000)

C30_LastUpdateBeforeSuspended ==
    [][last'.event = "AboutToWait" /\ activity_state = "WillSuspend" =>
           activity_state' = "Suspended" /\ last'.app_updated]_vars

\* The modes of examples/window/framerate.rs: reactive, with window and
\* device reactivity off.
ReactiveOff(mode) ==
    /\ mode.kind = "Reactive"
    /\ ~mode.react_to_window_events
    /\ ~mode.react_to_device_events

\* C31 as stated: in the lib.rs driver under a reactive mode with window and
\* device reactivity off, once a RequestRedraw user event was handled the
\* next idle step asks every window to redraw, and the RedrawRequested window
\* event that results runs a frame update when the app is active.
C31_ProxyRedrawWakes ==
    [][/\ (/\ last'.event = "AboutToWait"
           /\ proxy_wake = "sent"
           /\ ReactiveOff(effective_mode))
          => last'.redraw_issued
       /\ (/\ last'.event = "RedrawRequested" /\ last'.completed
           /\ proxy_wake = "requested"
           /\ ReactiveOff(update_mode)
           /\ should_run(activity_state))
          => last'.app_updated]_vars

\* C31 (amended): the idle step asks every window to redraw unless it ends
\* with the app Suspended, and the RedrawRequested event runs a frame update
\* when the app is active and plugin setup is complete.  The request stays
\* recorded until a frame update is attempted.
C31_ProxyRedrawWakesWhenRunnable ==
    [][/\ (/\ last'.event = "AboutToWait"
           /\ proxy_wake = "sent"
           /\ ReactiveOff(effective_mode)
           /\ activity_state' # "Suspended")
          => last'.redraw_issued /\ proxy_wake' = "requested"
       /\ (/\ last'.event = "RedrawRequested" /\ last'.completed
           /\ proxy_wake = "requested"
           /\ ReactiveOff(update_mode)
           /\ should_run(activity_state)
           /\ plugins_state' = "Cleaned")
          => last'.app_updated /\ proxy_wake' = "updated"
       /\ proxy_wake' \in {"sent", "requested"} => redraw_requested']_vars

\* C31 witness: a frame update ran at a RedrawRequested event that followed
\* from a proxy request, in a state where nothing else would have woken the
\* app: the wait has not elapsed, no update is forced, the mode is reactive
\* with both categories off.
C31_Witness ==
    /\ proxy_wake = "updated"
    /\ last.event = "RedrawRequested" /\ last.app_updated
    /\ ~wait_elapsed
    /\ startup_forced_updates = 0
    /\ activity_state = "Active"
    /\ ReactiveOff(update_mode)

\* C32: apply_state_transition changes State<S> or sends a transition event
\* only when a pending next state exists, the State<S> resource exists and
\* the pending value differs from the current one; when the pending value is
\* absent or equal to the current state, the current state is unchanged and
\* no transition event is sent.
C32_TransitionOnlyWhenDifferent ==
    [][LET changed == current_state' # current_state
           emitted == transition_events' # transition_events
           pending == next_state.kind = "Pending"
       IN  /\ (changed \/ emitted)
              => /\ applied'.called
                 /\ pending
                 /\ current_state # "absent"
                 /\ next_state.value # current_state
           /\ (applied'.called
               /\ (~pending \/ next_state.value = current_state))
              => ~changed /\ ~emitted]_vars

\* C32 witness: the system applied a pending value that differed from the
\* current state.
C32_Witness ==
    /\ applied.called
    /\ applied.pending.kind = "Pending"
    /\ applied.before \in States
    /\ applied.pending.value # applied.before
    /\ current_state = applied.pending.value
    /\ next_state = Unchanged
    /\ transition_events # <<>>

\* C32 witness: the system found a pending value equal to the current state
\* and applied nothing.
C32_WitnessEqual ==
    /\ applied.called
    /\ applied.pending.kind = "Pending"
    /\ applied.pending.value = applied.before
    /\ current_state = applied.before
    /\ next_state = Unchanged
    /\ transition_events = <<>>

\* C33: in the state.rs driver, handling one event runs at most one frame
\* update, and a frame update runs only in the handling of an idle
\* (AboutToWait) event that reaches its decision.  A handler is one step of
\* the loop: app.update() returns before the handler does, and the handler
\* holds the App exclusively, so updates of different steps do not overlap.
C33_OneUpdatePerIdleEvent ==
    [][/\ last'.app_updated
          => last'.event = "AboutToWait" /\ last'.completed
       /\ frame_updates' # frame_updates => last'.event = "AboutToWait"
       /\ update_calls' # update_calls => last'.event = "AboutToWait"
       /\ idle_decisions + 1 < MaxCount
          => /\ frame_updates' =
                    frame_updates + (IF last'.app_updated THEN 1 ELSE 0)
             /\ update_calls' \in {update_calls, update_calls + 1}]_vars

\* C33 witness: two idle events were handled and each ran one frame update.
C33_Witness ==
    /\ last.event = "AboutToWait" /\ last.app_updated
    /\ frame_updates = 2
    /\ update_calls = 2
    /\ idle_decisions = 2

\* C34: in the state.rs driver, after every idle step that runs to
\* completion, the cached runner_state.update_mode equals the update mode
\* the current WinitSettings select for the current focus state.
C34_CachedModeIsCurrent ==
    [][last'.event = "AboutToWait" /\ last'.completed
       => update_mode' = update_mode_of(settings', focused')]_vars

\* C34 witness: the first idle step ran a frame update and completed with
\* the cached mode replaced: the runner starts with Continuous, the settings
\* select a reactive mode for the unfocused application.
C34_Witness ==
    /\ last.event = "AboutToWait" /\ last.completed /\ last.app_updated
    /\ settings = manual_app /\ ~focused
    /\ update_mode = manual_app.unfocused_mode
    /\ idle_decisions = 1

\* C35: startup_forced_updates starts at 5, never increases, never goes
\* below 0, decreases by exactly 1 in each completed idle step while it is
\* positive, and is changed by no other event.
C35_StartupCounter ==
    /\ startup_forced_updates = 5
    /\ [][/\ startup_forced_updates' <= startup_forced_updates
          /\ startup_forced_updates' >= 0
          /\ (last'.event = "AboutToWait" /\ last'.completed)
             => startup_forced_updates' =
                    IF startup_forced_updates > 0
                    THEN startup_forced_updates - 1
                    ELSE 0
          /\ startup_forced_updates' # startup_forced_updates
             => last'.event = "AboutToWait" /\ last'.completed]_vars

\* C35 witness: the fifth completed idle step took the counter to 0, with
\* other events handled on the way.
C35_Witness ==
    /\ last.event = "AboutToWait" /\ last.completed
    /\ startup_forced_updates = 0
    /\ idle_decisions = 5
    /\ resumed_before

\* C36: once activity_state has left NotYetStarted it never returns to it,
\* and ApplicationLifetime::Started is sent only by a step that finds
\* NotYetStarted and leaves it: over any sequence of events it is sent at
\* most once.
C36_StartedAtMostOnce ==
    [][/\ activity_state # "NotYetStarted"
          => activity_state' # "NotYetStarted"
       /\ last'.sent = "ApplicationLifetime::Started"
          => /\ activity_state = "NotYetStarted"
             /\ activity_state' # "NotYetStarted"
             /\ ~resumed_before /\ resumed_before'
       /\ resumed_before => resumed_before']_vars

\* C36 witness: after the app was started and two idle steps were taken,
\* a further resume signal sent Resumed, not Started.
C36_Witness ==
    /\ last.event = "Resumed"
    /\ last.sent = "ApplicationLifetime::Resumed"
    /\ activity_state = "WillResume"
    /\ resumed_before
    /\ idle_decisions = 2
    /\ startup_forced_updates = 3

\* C37 as stated: an idle step that ends with activity_state Suspended
\* issues no redraw request and leaves redraw_requested latched; an idle step
\* that ends in any other state leaves redraw_requested false.
C37_RedrawLatchedOnlyWhileSuspended ==
    [][last'.event = "AboutToWait" =>
           IF activity_state' = "Suspended"
           THEN /\ ~last'.redraw_issued
                /\ redraw_requested => redraw_requested'
           ELSE ~redraw_requested']_vars

\* C37 (amended): the same, for the second half, of an idle step that runs
\* to completion; one that returns at the scale-factor lookup does not reach
\* the flush and leaves the flag as the handler set it.
C37_RedrawLatchedWhileSuspended ==
    [][last'.event = "AboutToWait" =>
           IF activity_state' = "Suspended"
           THEN /\ ~last'.redraw_issued
                /\ redraw_requested => redraw_requested'
           ELSE last'.completed => ~redraw_requested']_vars

\* C37 witness: an idle step took the suspend edge with the redraw flag set
\* by an earlier event; it issued no redraw request and the flag is still set.
C37_Witness ==
    /\ last.event = "AboutToWait" /\ last.completed
    /\ activity_state = "Suspended"
    /\ last.redraw_latched /\ redraw_requested
    /\ ~last.redraw_issued
    /\ last.should_update

\* C37, second half: a completed idle step of an active app found the flag
\* set and left it false.
C37_WitnessCleared ==
    /\ last.event = "AboutToWait" /\ last.completed
    /\ activity_state = "Active"
    /\ last.redraw_latched /\ ~redraw_requested
    /\ update_mode.kind = "Reactive"

\* C38 as stated: a window event that is dropped because its window is
\* unknown leaves activity state, wake flag, redraw flag, wait_elapsed,
\* cached update mode and startup counter as they were before the handler
\* was called.
C38_DroppedWindowEventChangesNothing ==
    [][last'.event = "WindowEvent" /\ ~last'.completed
       => /\ activity_state' = activity_state
          /\ event_received' = event_received
          /\ redraw_requested' = redraw_requested
          /\ wait_elapsed' = wait_elapsed
          /\ update_mode' = update_mode
          /\ startup_forced_updates' = startup_forced_updates]_vars

\* C38 (amended, state.rs): the dropped window event leaves activity state,
\* wait_elapsed, cached update mode and startup counter unchanged; the part
\* of the handler that runs before the lookup has set the redraw flag if
\* plugin setup was not complete, and the wake flag if the filter passes the
\* event under the current mode.
C38_DroppedWindowEventAfterPrelude ==
    [][last'.event = "WindowEvent" /\ ~last'.completed
       => /\ activity_state' = activity_state
          /\ wait_elapsed' = wait_elapsed
          /\ update_mode' = update_mode
          /\ startup_forced_updates' = startup_forced_updates
          /\ redraw_requested' =
                 (redraw_requested \/ plugins_state # "Cleaned")
          /\ last'.filter_result =
                 handle(event_filter, "WindowEvent", effective_mode)
          /\ event_received' = (event_received \/ last'.filter_result)]_vars

\* C38 (amended, lib.rs): the dropped window event leaves the two wake
\* flags unchanged as well; only the redraw flag is set, if plugin setup was
\* not complete.
C38_LibDroppedWindowEvent ==
    [][last'.event \in LibWindowEvents /\ ~last'.completed
       => /\ activity_state' = activity_state
          /\ wait_elapsed' = wait_elapsed
          /\ update_mode' = update_mode
          /\ startup_forced_updates' = startup_forced_updates
          /\ window_event_received' = window_event_received
          /\ device_event_received' = device_event_received
          /\ redraw_requested' =
                 (redraw_requested \/ plugins_state # "Cleaned")]_vars

\* C38 witness: with plugin setup complete and the redraw flag clear, a
\* window event for an unknown window was dropped; the filter had passed
\* it, and the wake flag is set.
C38_Witness ==
    /\ last.event = "WindowEvent" /\ ~last.completed
    /\ last.sent = "none"
    /\ last.filter_result /\ event_received
    /\ plugins_state = "Cleaned"
    /\ ~redraw_requested
    /\ activity_state = "Active"

\* C38 witness (lib.rs): a window event for an unknown window was dropped
\* and the window flag is still clear.
C38_LibWitness ==
    /\ last.event \in LibWindowEvents /\ ~last.completed
    /\ ~window_event_received
    /\ plugins_state = "Cleaned"
    /\ activity_state = "Active"

====
